---- MODULE Spec2Model ----
\* A model of the plt plotting library (src/plt/src/subplot.rs, src/plt/src/figure.rs):
\* series registration on a subplot and its axis span/limits bookkeeping, subplot
\* placement on a figure, the number formatter (sigdigit, tick_modifiers) and the
\* layout rectangles of draw_subplot.
EXTENDS Integers, Sequences, FiniteSets, TLC

VARIABLES
    mode,       \* which part of the library the behaviour exercises
    phase,      \* subplot: "builder" (SubplotBuilder) or "built" (Subplot)
    subplot,    \* subplot: the SubplotDescriptor / Subplot fields
    calls,      \* subplot: number of API calls made so far
    last_call,  \* subplot: the last registration call and what it returned
    figure,     \* figure: subplots and subplot_areas of a Figure
    fig_ret,    \* figure: the last add_subplot call and what it returned
    sd,         \* sigdigit: the running call (num, ret, position)
    tm,         \* tick_modifiers: the tick list and the result
    lay,        \* draw_subplot layout: the inputs and the computed rectangles
    render,     \* draw_subplot: the axes drawn from and the passes made
    overflow_checks  \* the build: TRUE when integer overflow panics (debug
                     \* profile), FALSE when it wraps (release profile)

vars == <<mode, phase, subplot, calls, last_call, figure, fig_ret, sd, tm, lay,
          render, overflow_checks>>

(***************************************************************************)
(* u32 / i32.  A 32-bit word is kept as its two's-complement value in      *)
(* I32_MIN..I32_MAX; a u32 of 2^31 or more is the word with the same bits  *)
(* (a negative value here), so wrapping arithmetic is the same for both    *)
(* types and only the order and the overflow conditions differ.            *)
(***************************************************************************)
I32_MAX == 2147483647
I32_MIN == -I32_MAX - 1

\* wrapping_add
WAdd(x, y) ==
    IF x > 0 /\ y > 0 /\ x > I32_MAX - y THEN (x + I32_MIN) + (y + I32_MIN)
    ELSE IF x < 0 /\ y < 0 /\ x < I32_MIN - y THEN (x - I32_MIN) + (y - I32_MIN)
    ELSE x + y

\* wrapping_neg
WNeg(x) == IF x = I32_MIN THEN I32_MIN ELSE -x

\* wrapping_sub
WSub(x, y) == WAdd(x, WNeg(y))

\* wrapping_mul by a word y >= 0
RECURSIVE WMul(_, _)
WMul(x, y) ==
    IF y = 0 THEN 0
    ELSE LET h == WMul(x, y \div 2)
         IN WAdd(WAdd(h, h), IF y % 2 = 1 THEN x ELSE 0)

\* x < y as u32
U32Lt(x, y) == IF (x < 0) = (y < 0) THEN x < y ELSE y < 0
U32Le(x, y) == x = y \/ U32Lt(x, y)

\* x - y underflows as u32
U32SubOverflows(x, y) == U32Lt(x, y)

\* x + y overflows as u32
U32AddOverflows(x, y) == U32Lt(WAdd(x, y), x)

\* u32::MAX / b for a word b >= 2
U32MaxDiv(b) ==
    LET q == I32_MAX \div b
        r == I32_MAX % b
    IN 2 * q + (IF r >= b - r - 1 THEN 1 ELSE 0)

\* x * y overflows as u32, for words x, y >= 0
U32MulOverflows(x, y) == x >= 2 /\ y >= 2 /\ y > U32MaxDiv(x)

\* x - y overflows as i32
I32SubOverflows(x, y) == (y < 0 /\ x > I32_MAX + y) \/ (y > 0 /\ x < I32_MIN + y)

\* x + y overflows as i32
I32AddOverflows(x, y) == (y > 0 /\ x > I32_MAX - y) \/ (y < 0 /\ x < I32_MIN - y)

(***************************************************************************)
(* f64.  A finite value is an integer count of 10^-FracDigits; the three   *)
(* special values are kept apart.  Arithmetic is exact on the finite       *)
(* values the model draws (no rounding error is modelled).                 *)
(***************************************************************************)
FracDigits == 3

RECURSIVE Pow10(_)
Pow10(n) == IF n <= 0 THEN 1 ELSE 10 * Pow10(n - 1)

Unit == Pow10(FracDigits)

Fin(n) == [k |-> "fin", v |-> n]
NAN == [k |-> "nan", v |-> 0]
INFINITY == [k |-> "inf", v |-> 0]
NEG_INFINITY == [k |-> "ninf", v |-> 0]

is_nan(x) == x.k = "nan"
IsFin(x) == x.k = "fin"

\* a < b on f64 (false when either is NaN)
FLt(a, b) ==
    CASE is_nan(a) \/ is_nan(b) -> FALSE
      [] a.k = "ninf" -> b.k # "ninf"
      [] a.k = "inf" -> FALSE
      [] b.k = "inf" -> TRUE
      [] b.k = "ninf" -> FALSE
      [] OTHER -> a.v < b.v

\* a == b on f64 (false when either is NaN)
FEq(a, b) == ~is_nan(a) /\ ~is_nan(b) /\ a = b

FLe(a, b) == FLt(a, b) \/ FEq(a, b)

\* f64::min / f64::max: a NaN operand is ignored
FMin(a, b) == IF is_nan(a) THEN b ELSE IF is_nan(b) THEN a ELSE IF FLt(b, a) THEN b ELSE a
FMax(a, b) == IF is_nan(a) THEN b ELSE IF is_nan(b) THEN a ELSE IF FLt(a, b) THEN b ELSE a

FNeg(a) ==
    CASE a.k = "inf" -> NEG_INFINITY
      [] a.k = "ninf" -> INFINITY
      [] a.k = "nan" -> NAN
      [] OTHER -> Fin(-a.v)

FAdd(a, b) ==
    CASE is_nan(a) \/ is_nan(b) -> NAN
      [] IsFin(a) /\ IsFin(b) -> Fin(a.v + b.v)
      [] IsFin(a) -> b
      [] IsFin(b) -> a
      [] a = b -> a
      [] OTHER -> NAN

FSub(a, b) == FAdd(a, FNeg(b))

\* 0.05 * x
Mul005(x) == IF IsFin(x) THEN Fin((x.v * 5) \div 100) ELSE x

(***************************************************************************)
(* subplot.rs: axes, descriptors, data containers                          *)
(***************************************************************************)
AxisType == {"X", "Y", "SecondaryX", "SecondaryY"}

None == [some |-> FALSE, lo |-> Fin(0), hi |-> Fin(0)]
Some(a, b) == [some |-> TRUE, lo |-> a, hi |-> b]

Auto == [tag |-> "Auto", min |-> Fin(0), max |-> Fin(0)]
Manual(a, b) == [tag |-> "Manual", min |-> a, max |-> b]

\* AxisDescriptor: the fields the limit bookkeeping reads and writes
DefaultAxis == [limit_policy |-> Auto, limits |-> None, span |-> None]

\* SubplotDescriptor::default() followed by Subplot::new
DefaultSubplot ==
    [ plot_order |-> <<>>, plot_infos |-> <<>>, fill_infos |-> <<>>,
      axis |-> [a \in AxisType |-> DefaultAxis] ]

\* SubplotBuilder::axes
axes(axis) ==
    CASE axis = "X" -> {"X"}
      [] axis = "Y" -> {"Y"}
      [] axis = "SecondaryX" -> {"SecondaryX"}
      [] axis = "SecondaryY" -> {"SecondaryY"}
      [] axis = "BothX" -> {"X", "SecondaryX"}
      [] axis = "BothY" -> {"Y", "SecondaryY"}
      [] axis = "BothPrimary" -> {"X", "Y"}
      [] axis = "BothSecondary" -> {"SecondaryX", "SecondaryY"}
      [] axis = "All" -> AxisType

\* SubplotBuilder::limits on one axis descriptor
limits_one(ax, lim) ==
    IF lim.tag = "Manual"
    THEN [ax EXCEPT !.limits = Some(lim.min, lim.max),
                    !.span = Some(lim.min, lim.max),
                    !.limit_policy = lim]
    ELSE [ax EXCEPT !.limit_policy = lim]

\* SubplotBuilder::limits
limits(s, axis, lim) ==
    [s EXCEPT !.axis = [a \in AxisType |->
        IF a \in axes(axis) THEN limits_one(s.axis[a], lim) ELSE s.axis[a]]]

\* iter().fold(f64::INFINITY, |a, &b| a.min(b))
RECURSIVE fold_min(_, _)
fold_min(s, acc) == IF s = <<>> THEN acc ELSE fold_min(Tail(s), FMin(acc, Head(s)))

\* iter().fold(f64::NEG_INFINITY, |a, &b| a.max(b))
RECURSIVE fold_max(_, _)
fold_max(s, acc) == IF s = <<>> THEN acc ELSE fold_max(Tail(s), FMax(acc, Head(s)))

\* PlotData / PlotDataOwned / StepData / StepDataOwned: xdata (or edges) and ydata
SeriesData(kind, xs, ys) == [kind |-> kind, xdata |-> xs, ydata |-> ys]
xmin(d) == fold_min(d.xdata, INFINITY)
xmax(d) == fold_max(d.xdata, NEG_INFINITY)
ymin(d) == fold_min(d.ydata, INFINITY)
ymax(d) == fold_max(d.ydata, NEG_INFINITY)

\* FillBetweenData / FillBetweenDataOwned
FillData(xs, y1s, y2s) == [xdata |-> xs, y1_data |-> y1s, y2_data |-> y2s]
fill_ymin(d) == FMin(fold_min(d.y1_data, INFINITY), fold_min(d.y2_data, INFINITY))
fill_ymax(d) == FMax(fold_max(d.y1_data, NEG_INFINITY), fold_max(d.y2_data, NEG_INFINITY))

\* the Limits::Auto arm of plot_desc / fill_between_desc: grow the span, derive limits
grow_span(ax, dmin, dmax) ==
    LET span == IF ax.span.some
                THEN Some(FMin(ax.span.lo, dmin), FMax(ax.span.hi, dmax))
                ELSE Some(dmin, dmax)
        extent == FSub(span.hi, span.lo)
    IN [ax EXCEPT !.span = span,
                  !.limits = Some(FSub(span.lo, Mul005(extent)), FAdd(span.hi, Mul005(extent)))]

\* the match on axis.limit_policy with the Auto arm taken whatever the policy
register_whatever_policy(ax, dmin, dmax) == grow_span(ax, dmin, dmax)

\* match axis.limit_policy { Auto => ..., Manual => {} }
register_on_axis(ax, dmin, dmax) ==
    IF ax.limit_policy.tag = "Auto" THEN grow_span(ax, dmin, dmax) ELSE ax

\* PlotDescriptor::default() with Plotter::use_secondary_xaxis / use_secondary_yaxis
PlotDescriptor(secx, secy) ==
    [ line |-> TRUE, marker |-> FALSE,
      xaxis |-> IF secx THEN "SecondaryX" ELSE "X",
      yaxis |-> IF secy THEN "SecondaryY" ELSE "Y",
      pixel_perfect |-> FALSE ]

\* FillDescriptor::default() with the Filler's builder calls
FillDescriptor(secx, secy, label, color) ==
    [ xaxis |-> IF secx THEN "SecondaryX" ELSE "X",
      yaxis |-> IF secy THEN "SecondaryY" ELSE "Y",
      label |-> label, color_override |-> color ]

\* Subplot::plot_desc
plot_desc(s, desc, data) ==
    LET s1 == [s EXCEPT !.axis[desc.xaxis] = register_on_axis(@, xmin(data), xmax(data))]
        s2 == [s1 EXCEPT !.axis[desc.yaxis] = register_on_axis(@, ymin(data), ymax(data))]
    IN [s2 EXCEPT !.plot_infos = Append(@, [data |-> data,
                                            line |-> desc.line, marker |-> desc.marker,
                                            xaxis |-> desc.xaxis, yaxis |-> desc.yaxis,
                                            pixel_perfect |-> desc.pixel_perfect]),
                  !.plot_order = Append(@, "Series")]

\* Subplot::fill_between_desc
fill_between_desc(s, desc, data) ==
    LET s1 == [s EXCEPT !.axis[desc.xaxis] = register_on_axis(@, xmin(data), xmax(data))]
        s2 == [s1 EXCEPT !.axis[desc.yaxis] =
                            register_on_axis(@, fill_ymin(data), fill_ymax(data))]
    IN [s2 EXCEPT !.fill_infos = Append(@, [data |-> data, label |-> desc.label,
                                            color_override |-> desc.color_override,
                                            xaxis |-> desc.xaxis, yaxis |-> desc.yaxis]),
                  !.plot_order = Append(@, "Fill")]

any_nan(s) == \E i \in 1..Len(s) : is_nan(s[i])

Ok(s) == [result |-> "Ok", subplot |-> s]
InvalidData(s) == [result |-> "InvalidData", subplot |-> s]

\* Plotter::plot without its third check (the NaN scan of ys)
plot_ys_unchecked(s, desc, xs, ys) ==
    IF Len(xs) # Len(ys) THEN InvalidData(s)
    ELSE IF any_nan(xs) THEN InvalidData(s)
    ELSE Ok(plot_desc(s, desc, SeriesData("points", xs, ys)))

\* Plotter::plot
plot(s, desc, xs, ys) ==
    IF Len(xs) # Len(ys) THEN InvalidData(s)
    ELSE IF any_nan(xs) THEN InvalidData(s)
    ELSE IF any_nan(ys) THEN InvalidData(s)
    ELSE Ok(plot_desc(s, desc, SeriesData("points", xs, ys)))

\* Plotter::plot_owned
plot_owned(s, desc, xs, ys) ==
    IF Len(xs) # Len(ys) THEN InvalidData(s)
    ELSE IF any_nan(xs) THEN InvalidData(s)
    ELSE IF any_nan(ys) THEN InvalidData(s)
    ELSE Ok(plot_desc(s, desc, SeriesData("points", xs, ys)))

\* Plotter::step comparing the two lengths for equality, as plot does
step_equal_lengths(s, desc, steps, ys) ==
    IF Len(steps) # Len(ys) THEN InvalidData(s)
    ELSE IF any_nan(steps) THEN InvalidData(s)
    ELSE IF any_nan(ys) THEN InvalidData(s)
    ELSE Ok(plot_desc(s, [desc EXCEPT !.pixel_perfect = TRUE], SeriesData("step", steps, ys)))

\* Plotter::step
step(s, desc, steps, ys) ==
    IF Len(steps) # Len(ys) + 1 THEN InvalidData(s)
    ELSE IF any_nan(steps) THEN InvalidData(s)
    ELSE IF any_nan(ys) THEN InvalidData(s)
    ELSE Ok(plot_desc(s, [desc EXCEPT !.pixel_perfect = TRUE], SeriesData("step", steps, ys)))

\* Plotter::step_owned
step_owned(s, desc, steps, ys) ==
    IF Len(steps) # Len(ys) + 1 THEN InvalidData(s)
    ELSE IF any_nan(steps) THEN InvalidData(s)
    ELSE IF any_nan(ys) THEN InvalidData(s)
    ELSE Ok(plot_desc(s, [desc EXCEPT !.pixel_perfect = TRUE], SeriesData("step", steps, ys)))

\* Filler::fill_between
fill_between(s, desc, xs, y1s, y2s) ==
    Ok(fill_between_desc(s, desc, FillData(xs, y1s, y2s)))

\* Filler::fill_between_owned: registers with FillDescriptor::default()
fill_between_owned(s, desc, xs, y1s, y2s) ==
    Ok(fill_between_desc(s, FillDescriptor(FALSE, FALSE, "", "none"), FillData(xs, y1s, y2s)))

(***************************************************************************)
(* Subplot specification: a SubplotBuilder takes limits() calls, is built, *)
(* and the Subplot then takes registrations.                               *)
(***************************************************************************)
MaxCalls == 3

\* caller-supplied coordinates
Lo == Fin(-Unit)
Hi == Fin(Unit)

\* the (xs, ys) pairs handed to plot / plot_owned: empty, one point, unequal
\* lengths, a NaN in xs, a NaN in ys
PlotArgs ==
    { << <<>>, <<>> >>,
      << <<Hi>>, <<Hi>> >>,
      << <<Hi>>, <<Lo, Hi>> >>,
      << <<NAN>>, <<Hi>> >>,
      << <<Hi>>, <<NAN>> >> }

\* the (steps, ys) pairs handed to step / step_owned: one more edge than values,
\* as many, fewer, a NaN edge, a NaN value
StepArgs ==
    { << <<Lo, Hi>>, <<Hi>> >>,
      << <<Hi>>, <<Hi>> >>,
      << <<>>, <<Hi>> >>,
      << <<NAN, Hi>>, <<Hi>> >>,
      << <<Lo, Hi>>, <<NAN>> >> }

\* the (xs, y1s, y2s) triples handed to the Filler: a well-formed one, one with a
\* NaN and one with unequal lengths
FillArgs ==
    { << <<Lo, Hi>>, <<Lo, Hi>>, <<Lo, Hi>> >>,
      << <<Hi>>, <<NAN>>, <<Hi>> >>,
      << <<Hi>>, <<Lo, Hi>>, <<>> >> }

AxisArgs == {"X", "Y", "SecondaryX", "SecondaryY", "BothX", "BothY",
             "BothPrimary", "BothSecondary", "All"}
LimitArgs == { Auto, Manual(Lo, Hi), Manual(Hi, Lo) }

\* the Plotter and Filler configurations tried: the default one, and one with
\* every builder method of the Plotter / Filler called
PlotterDescs == { PlotDescriptor(FALSE, FALSE), PlotDescriptor(TRUE, TRUE) }
FillerDescs == { FillDescriptor(FALSE, FALSE, "", "none"), FillDescriptor(TRUE, TRUE, "fill", "red") }

\* no Filler: the call is not made on one
NoFiller == "none"

NoCall == [op |-> "none", filler |-> NoFiller, bad |-> FALSE, result |-> "none", changed |-> FALSE]

IdleFigure == [subplots |-> <<>>, subplot_areas |-> <<>>]
IdleFigRet == [result |-> "none"]
IdleSd == [pc |-> "idle"]
IdleTm == [pc |-> "idle"]
IdleLay == [pc |-> "idle"]
IdleRender == [pc |-> "idle"]

SubplotInit ==
    /\ mode = "subplot"
    /\ phase = "builder"
    /\ subplot = DefaultSubplot
    /\ calls = 0
    /\ last_call = NoCall
    /\ figure = IdleFigure
    /\ fig_ret = IdleFigRet
    /\ sd = IdleSd
    /\ tm = IdleTm
    /\ lay = IdleLay
    /\ render = IdleRender
    /\ overflow_checks = FALSE

OtherThanSubplot == <<mode, figure, fig_ret, sd, tm, lay, render, overflow_checks>>

\* SubplotBuilder::limits
BuilderLimits ==
    /\ phase = "builder"
    /\ calls < MaxCalls
    /\ \E axis \in AxisArgs, lim \in LimitArgs :
          subplot' = limits(subplot, axis, lim)
    /\ calls' = calls + 1
    /\ UNCHANGED <<phase, last_call>>
    /\ UNCHANGED OtherThanSubplot

\* SubplotBuilder::build
Build ==
    /\ phase = "builder"
    /\ phase' = "built"
    /\ UNCHANGED <<subplot, calls, last_call>>
    /\ UNCHANGED OtherThanSubplot

\* a registration call returned r: last_call records which operation it was,
\* the descriptor of the Filler it was made on, whether its arguments were
\* malformed, what it returned and whether it changed the subplot; a rejected
\* call is not counted against MaxCalls
Returned(op, filler, bad, r) ==
    /\ subplot' = r.subplot
    /\ last_call' = [op |-> op, filler |-> filler, bad |-> bad, result |-> r.result,
                     changed |-> r.subplot # subplot]
    /\ calls' = IF r.result = "Ok" THEN calls + 1 ELSE calls
    /\ UNCHANGED phase
    /\ UNCHANGED OtherThanSubplot

CanRegister == phase = "built" /\ calls < MaxCalls

BadPair(xs, ys) == Len(xs) # Len(ys) \/ any_nan(xs) \/ any_nan(ys)
BadTriple(t) ==
    \/ Len(t[1]) # Len(t[2]) \/ Len(t[1]) # Len(t[3])
    \/ any_nan(t[1]) \/ any_nan(t[2]) \/ any_nan(t[3])

PlotterPlot ==
    /\ CanRegister
    /\ \E desc \in PlotterDescs, a \in PlotArgs :
          Returned("plot", NoFiller, BadPair(a[1], a[2]), plot(subplot, desc, a[1], a[2]))

PlotterPlotOwned ==
    /\ CanRegister
    /\ \E desc \in PlotterDescs, a \in PlotArgs :
          Returned("plot", NoFiller, BadPair(a[1], a[2]), plot_owned(subplot, desc, a[1], a[2]))

PlotterStep ==
    /\ CanRegister
    /\ \E desc \in PlotterDescs, a \in StepArgs :
          Returned("step", NoFiller, Len(a[1]) # Len(a[2]) + 1, step(subplot, desc, a[1], a[2]))

PlotterStepOwned ==
    /\ CanRegister
    /\ \E desc \in PlotterDescs, a \in StepArgs :
          Returned("step", NoFiller, Len(a[1]) # Len(a[2]) + 1, step_owned(subplot, desc, a[1], a[2]))

FillerFillBetween ==
    /\ CanRegister
    /\ \E desc \in FillerDescs, t \in FillArgs :
          Returned("fill_between", desc, BadTriple(t),
                   fill_between(subplot, desc, t[1], t[2], t[3]))

FillerFillBetweenOwned ==
    /\ CanRegister
    /\ \E desc \in FillerDescs, t \in FillArgs :
          Returned("fill_between_owned", desc, BadTriple(t),
                   fill_between_owned(subplot, desc, t[1], t[2], t[3]))

SubplotNext ==
    \/ BuilderLimits
    \/ Build
    \/ PlotterPlot
    \/ PlotterPlotOwned
    \/ PlotterStep
    \/ PlotterStepOwned
    \/ FillerFillBetween
    \/ FillerFillBetweenOwned

SubplotSpec == SubplotInit /\ [][SubplotNext]_vars

(***************************************************************************)
(* Properties of registration (checked under SubplotSpec)                 *)
(***************************************************************************)

\* C1: a plot / plot_owned call whose x and y sequences differ in length, or hold a
\* NaN, returns InvalidData and leaves the subplot (plot_infos, fill_infos,
\* plot_order, span and limits of the four axes) exactly as it was.
C1_PlotRejectsBadData ==
    (last_call.op = "plot" /\ last_call.bad)
        => (last_call.result = "InvalidData" /\ ~last_call.changed)

\* a rejected plot call on a subplot that already holds entries and grown axes
C1_Witness ==
    /\ last_call.op = "plot" /\ last_call.bad /\ last_call.result = "InvalidData"
    /\ Len(subplot.plot_order) > 0
    /\ \E a \in AxisType : subplot.axis[a].span.some

\* C2: a step / step_owned call whose edge count is not one more than its value
\* count (equal counts included) returns InvalidData and registers nothing.
C2_StepRejectsBadLengths ==
    (last_call.op = "step" /\ last_call.bad)
        => (last_call.result = "InvalidData" /\ ~last_call.changed)

\* a rejected step call after a step series was accepted
C2_Witness ==
    /\ last_call.op = "step" /\ last_call.bad /\ last_call.result = "InvalidData"
    /\ \E i \in 1..Len(subplot.plot_infos) : subplot.plot_infos[i].data.kind = "step"

\* C3: a fill_between / fill_between_owned call whose three sequences are not of
\* one length, or hold a NaN, returns InvalidData, records no fill entry and
\* changes no axis span or limits.
C3_FillRejectsBadData ==
    (last_call.op \in {"fill_between", "fill_between_owned"} /\ last_call.bad)
        => (last_call.result = "InvalidData" /\ ~last_call.changed)

\* C5: every axis with a resolved span has limits.min <= span.min and
\* span.max <= limits.max.
C5_SpanWithinLimits ==
    \A a \in AxisType :
        subplot.axis[a].span.some =>
            /\ subplot.axis[a].limits.some
            /\ FLe(subplot.axis[a].limits.lo, subplot.axis[a].span.lo)
            /\ FLe(subplot.axis[a].span.hi, subplot.axis[a].limits.hi)

\* the extents of the entries registered on axis a, in registration order per list
ExtentsOn(s, a) ==
    LET ps == SelectSeq(s.plot_infos, LAMBDA i : i.xaxis = a \/ i.yaxis = a)
        fs == SelectSeq(s.fill_infos, LAMBDA i : i.xaxis = a \/ i.yaxis = a)
    IN [i \in 1..Len(ps) |->
            IF ps[i].xaxis = a THEN <<xmin(ps[i].data), xmax(ps[i].data)>>
                               ELSE <<ymin(ps[i].data), ymax(ps[i].data)>>]
       \o [i \in 1..Len(fs) |->
            IF fs[i].xaxis = a THEN <<xmin(fs[i].data), xmax(fs[i].data)>>
                               ELSE <<fill_ymin(fs[i].data), fill_ymax(fs[i].data)>>]

\* minimum of the minima and maximum of the maxima of a non-empty list of extents
RECURSIVE UnionOf(_)
UnionOf(es) ==
    IF Len(es) = 1 THEN es[1]
    ELSE LET rest == UnionOf(Tail(es))
         IN <<FMin(es[1][1], rest[1]), FMax(es[1][2], rest[2])>>

Widened(lo, hi) ==
    Some(FSub(lo, Mul005(FSub(hi, lo))), FAdd(hi, Mul005(FSub(hi, lo))))

\* C6: on an axis whose policy is auto when the subplot is built, the span is the
\* union of the extents of the entries registered on it and the limits are that
\* span widened by 5% of its extent on each side.
C6_AutoSpanIsUnion ==
    \A a \in AxisType :
        (phase = "built" /\ subplot.axis[a].limit_policy.tag = "Auto"
            /\ Len(ExtentsOn(subplot, a)) > 0) =>
            LET u == UnionOf(ExtentsOn(subplot, a))
            IN /\ subplot.axis[a].span = Some(u[1], u[2])
               /\ subplot.axis[a].limits = Widened(u[1], u[2])

\* C7: an axis whose policy is Manual{min, max} keeps span = limits = (min, max)
\* through every registration.
C7_ManualAxisFixed ==
    /\ [](\A a \in AxisType :
            subplot.axis[a].limit_policy.tag = "Manual" =>
                /\ subplot.axis[a].span =
                       Some(subplot.axis[a].limit_policy.min, subplot.axis[a].limit_policy.max)
                /\ subplot.axis[a].limits = subplot.axis[a].span)
    /\ [][ phase = "built" =>
             \A a \in AxisType :
                 subplot.axis[a].limit_policy.tag = "Manual" =>
                     subplot'.axis[a] = subplot.axis[a] ]_vars

\* an entry was registered on a Manual axis
C7_Witness ==
    \E a \in AxisType :
        /\ subplot.axis[a].limit_policy.tag = "Manual"
        /\ Len(ExtentsOn(subplot, a)) > 0
        /\ \E i \in 1..Len(ExtentsOn(subplot, a)) :
               ExtentsOn(subplot, a)[i] # <<subplot.axis[a].span.lo, subplot.axis[a].span.hi>>

\* the fill entry registered last
LastFill == subplot.fill_infos[Len(subplot.fill_infos)]

\* C25: a fill registered with fill_between_owned is stored with the configuration
\* of its Filler, as fill_between stores it: the axes chosen with
\* use_secondary_xaxis / use_secondary_yaxis, the label and the color override;
\* the axes that get a span are the chosen ones.
C25_OwnedFillKeepsConfiguration ==
    (last_call.op = "fill_between_owned" /\ last_call.result = "Ok") =>
        /\ LastFill.xaxis = last_call.filler.xaxis
        /\ LastFill.yaxis = last_call.filler.yaxis
        /\ LastFill.label = last_call.filler.label
        /\ LastFill.color_override = last_call.filler.color_override
        /\ subplot.axis[last_call.filler.xaxis].span.some
        /\ subplot.axis[last_call.filler.yaxis].span.some

(***************************************************************************)
(* figure.rs: Figure::new and Figure::add_subplot                          *)
(***************************************************************************)

\* FigureDescriptor: figsize is in hundredths of an inch here (6.75 in = 675)
FigureDescriptor(w, h, dpi) == [figsize |-> <<w, h>>, dpi |-> dpi]

\* FigureDescriptor::default()
DefaultFigureDescriptor == FigureDescriptor(675, 200, 100)

\* Figure::new; scaling is kept in hundredths (dpi / default dpi)
new(desc) ==
    [ subplots |-> <<>>,
      subplot_areas |-> <<>>,
      size |-> [ width |-> (desc.figsize[1] * desc.dpi) \div 100,
                 height |-> (desc.figsize[1] * desc.dpi) \div 100 ],
      scaling |-> (desc.dpi * 100) \div DefaultFigureDescriptor.dpi,
      dpi |-> desc.dpi ]

Area(x0, x1, y0, y1) == [xmin |-> x0, xmax |-> x1, ymin |-> y0, ymax |-> y1]

FigOk(f) == [result |-> "Ok", figure |-> f]
InvalidIndex(f) == [result |-> "InvalidIndex", figure |-> f]
FigPanic(f) == [result |-> "panic", figure |-> f]

\* Figure::add_subplot.  nrows * ncols is a u32 product: it panics under overflow
\* checks and wraps otherwise.  Past the index test the grid is non-empty and the
\* pixel counts are small enough for the f32 conversions to be exact.
add_subplot(f, nrows, ncols, index, sub, checks) ==
    IF checks /\ U32MulOverflows(nrows, ncols) THEN FigPanic(f)
    ELSE IF U32Lt(WMul(nrows, ncols), index) \/ index = 0 THEN InvalidIndex(f)
    ELSE LET row == (index - 1) \div ncols
             col == (index - 1) % ncols
             xextent == f.size.width \div ncols
             yextent == f.size.height \div nrows
             x0 == xextent * col
             y0 == yextent * (nrows - 1 - row)
         IN FigOk([f EXCEPT !.subplot_areas = Append(@, Area(x0, x0 + xextent, y0, y0 + yextent)),
                            !.subplots = Append(@, sub)])

(***************************************************************************)
(* Figure specification: a Figure is constructed and takes add_subplot     *)
(* calls.                                                                  *)
(***************************************************************************)
MaxSubplots == 3
MaxIndex == 7

FigureDescs == { DefaultFigureDescriptor, FigureDescriptor(300, 400, 200) }

\* the (nrows, ncols) grids asked for: 1x1, 2x2, 2x3, two empty grids, and a grid
\* of 2^16 x 2^16 cells
GridArgs == { <<1, 1>>, <<2, 2>>, <<2, 3>>, <<0, 3>>, <<3, 0>>, <<65536, 65536>> }

\* no call made yet on the figure constructed from desc
NoFigCall(desc) ==
    [ desc |-> desc, result |-> "none", nrows |-> 0, ncols |-> 0, index |-> 0,
      pushed_subplots |-> 0, pushed_areas |-> 0 ]

FigureInit ==
    /\ mode = "figure"
    /\ \E desc \in FigureDescs :
          /\ figure = new(desc)
          /\ fig_ret = NoFigCall(desc)
    /\ overflow_checks \in BOOLEAN
    /\ phase = "idle"
    /\ subplot = DefaultSubplot
    /\ calls = 0
    /\ last_call = NoCall
    /\ sd = IdleSd
    /\ tm = IdleTm
    /\ lay = IdleLay
    /\ render = IdleRender

\* Figure::add_subplot; a panic ends the program
AddSubplot ==
    /\ mode = "figure"
    /\ fig_ret.result # "panic"
    /\ Len(figure.subplots) < MaxSubplots
    /\ \E g \in GridArgs, index \in 0..MaxIndex :
          LET r == add_subplot(figure, g[1], g[2], index, DefaultSubplot, overflow_checks)
          IN /\ figure' = r.figure
             /\ fig_ret' = [ desc |-> fig_ret.desc,
                             result |-> r.result, nrows |-> g[1], ncols |-> g[2],
                             index |-> index,
                             pushed_subplots |-> Len(r.figure.subplots) - Len(figure.subplots),
                             pushed_areas |->
                                 Len(r.figure.subplot_areas) - Len(figure.subplot_areas) ]
    /\ UNCHANGED <<mode, phase, subplot, calls, last_call, sd, tm, lay, render,
                   overflow_checks>>

FigureNext == AddSubplot

FigureSpec == FigureInit /\ [][FigureNext]_vars

\* C29: Figure::new takes the pixel width from the width of figsize and the pixel
\* height from its height: width = floor(figsize.0 * dpi), height =
\* floor(figsize.1 * dpi).
C29_SizeFromFigsize ==
    mode = "figure" =>
        /\ figure.size.width = (fig_ret.desc.figsize[1] * fig_ret.desc.dpi) \div 100
        /\ figure.size.height = (fig_ret.desc.figsize[2] * fig_ret.desc.dpi) \div 100

\* 1 <= index <= nrows * ncols, the product taken in the integers
IndexInGrid(nrows, ncols, index) ==
    /\ index >= 1
    /\ nrows >= 1
    /\ ncols >= 1
    /\ (index - 1) \div ncols < nrows

\* C4: add_subplot returns InvalidIndex exactly when index = 0 or
\* index > nrows * ncols, and then changes neither list; for an index in
\* [1, nrows * ncols] it appends one subplot and one area; the two lists always
\* have the same length.
C4_AddSubplotIndexContract ==
    /\ Len(figure.subplots) = Len(figure.subplot_areas)
    /\ fig_ret.result # "none" =>
          IF IndexInGrid(fig_ret.nrows, fig_ret.ncols, fig_ret.index)
          THEN /\ fig_ret.result = "Ok"
               /\ fig_ret.pushed_subplots = 1
               /\ fig_ret.pushed_areas = 1
          ELSE /\ fig_ret.result = "InvalidIndex"
               /\ fig_ret.pushed_subplots = 0
               /\ fig_ret.pushed_areas = 0

(***************************************************************************)
(* figure.rs: sigdigit, one loop iteration at a time.  The local num is    *)
(* kept as the fraction n / d (d a power of ten) so that num /= 10.0 and   *)
(* num *= 10.0 are exact.                                                  *)
(***************************************************************************)
MaxIter == 8

\* the frame of a call sigdigit(x)
sd_call(x) ==
    [ pc |-> "call", x |-> x, k |-> x.k, n |-> x.v, d |-> Unit, ret |-> 0 ]

\* num > 1.0
sd_gt_one(s) == s.k = "inf" \/ (s.k = "fin" /\ s.n > s.d)

\* num >= 10.0
sd_ge_ten(s) == s.k = "inf" \/ (s.k = "fin" /\ s.n >= 10 * s.d)

\* num < 1.0
sd_lt_one(s) == s.k = "ninf" \/ (s.k = "fin" /\ s.n < s.d)

\* num *= 10.0.  A negative num too large for the model's integers is kept as
\* -inf, the value it reaches some 300 iterations later; the loop test num < 1.0
\* holds of both.
sd_times_ten(s) ==
    IF s.k # "fin" THEN s
    ELSE IF s.n < -(I32_MAX \div 10) THEN [s EXCEPT !.k = "ninf", !.n = 0, !.d = 1]
    ELSE [s EXCEPT !.n = 10 * @]

\* num /= 10.0
sd_tenth(s) == IF s.k # "fin" THEN s ELSE [s EXCEPT !.d = 10 * @]

\* one step of sigdigit: the entry tests, one iteration of either loop, or the
\* return that follows a loop
sd_step(s) ==
    CASE s.pc = "call" ->
            IF s.k = "fin" /\ s.n = 0 THEN [s EXCEPT !.pc = "done", !.ret = I32_MIN]
            ELSE IF sd_gt_one(s) THEN [s EXCEPT !.pc = "up"]
            ELSE [s EXCEPT !.pc = "down"]
      [] s.pc = "up" ->
            IF sd_ge_ten(s)
            THEN [sd_tenth(s) EXCEPT !.ret = WAdd(@, 1)]
            ELSE [s EXCEPT !.pc = "done"]
      [] s.pc = "down" ->
            IF sd_lt_one(s)
            THEN [sd_times_ten(s) EXCEPT !.ret = WSub(@, 1)]
            ELSE [s EXCEPT !.pc = "done"]
      [] OTHER -> s

\* sigdigit run to its return, or cut off after fuel steps with the loop still
\* running
RECURSIVE sd_run(_, _)
sd_run(s, fuel) ==
    IF s.pc = "done" THEN [status |-> "ret", val |-> s.ret]
    ELSE IF fuel = 0 THEN [status |-> "noreturn", val |-> 0]
    ELSE sd_run(sd_step(s), fuel - 1)

\* sigdigit as a function: the value returned, or "noreturn" when the loop is
\* still running after MaxIter iterations
sigdigit(x) == sd_run(sd_call(x), MaxIter + 2)

(***************************************************************************)
(* Sigdigit specification: one call of sigdigit, stepped through its loop. *)
(***************************************************************************)
SigRange == 40

\* the arguments: every multiple of 10^-FracDigits from -SigRange to SigRange
\* (0 among them), and 1, 5, 10, 999, 1000 and their negatives
SigArgs ==
    { Fin(v) : v \in -SigRange..SigRange }
        \cup { Fin(m * Unit) : m \in {1, 5, 10, 999, 1000} }
        \cup { Fin(-m * Unit) : m \in {1, 5, 10, 999, 1000} }

SigInit ==
    /\ mode = "sigdigit"
    /\ \E x \in SigArgs : sd = sd_call(x)
    /\ overflow_checks \in BOOLEAN
    /\ phase = "idle"
    /\ subplot = DefaultSubplot
    /\ calls = 0
    /\ last_call = NoCall
    /\ figure = IdleFigure
    /\ fig_ret = IdleFigRet
    /\ tm = IdleTm
    /\ lay = IdleLay
    /\ render = IdleRender

OtherThanSd ==
    <<mode, phase, subplot, calls, last_call, figure, fig_ret, tm, lay, render,
      overflow_checks>>

\* the tests on entry: num == 0.0, num > 1.0
SdEnter ==
    /\ sd.pc = "call"
    /\ sd' = sd_step(sd)
    /\ UNCHANGED OtherThanSd

\* one iteration of while num >= 10.0 { num /= 10.0; ret += 1; }
SdDivide ==
    /\ sd.pc = "up" /\ sd_ge_ten(sd)
    /\ sd.ret < MaxIter
    /\ sd' = sd_step(sd)
    /\ UNCHANGED OtherThanSd

\* one iteration of while num < 1.0 { num *= 10.0; ret -= 1; }
SdMultiply ==
    /\ sd.pc = "down" /\ sd_lt_one(sd)
    /\ -sd.ret < MaxIter
    /\ sd' = sd_step(sd)
    /\ UNCHANGED OtherThanSd

\* the loop test fails and ret is returned
SdReturn ==
    /\ \/ sd.pc = "up" /\ ~sd_ge_ten(sd)
       \/ sd.pc = "down" /\ ~sd_lt_one(sd)
    /\ sd' = sd_step(sd)
    /\ UNCHANGED OtherThanSd

SigNext == SdEnter \/ SdDivide \/ SdMultiply \/ SdReturn

SigSpec == SigInit /\ [][SigNext]_vars

\* the e with 10^e <= |x| < 10^(e+1), for a finite nonzero x
Abs(i) == IF i < 0 THEN -i ELSE i
ExponentOf(x) ==
    CHOOSE e \in -FracDigits..MaxIter :
        /\ Pow10(e + FracDigits) <= Abs(x.v)
        /\ Abs(x.v) < Pow10(e + FracDigits + 1)

\* C10: sigdigit(0) returns the sentinel; for a finite nonzero x, negative or
\* positive, the call returns the exponent of the most significant digit of |x|.
\* The loops move ret one step at a time away from 0, so a call that returns that
\* exponent never has ret further from 0 than the exponent is.
C10_SigdigitIsExponentOfAbs ==
    /\ sd.pc = "done" =>
          sd.ret = IF sd.x.v = 0 THEN I32_MIN ELSE ExponentOf(sd.x)
    /\ sd.pc \in {"up", "down"} => Abs(sd.ret) <= Abs(ExponentOf(sd.x))

(***************************************************************************)
(* figure.rs: round_to, decimals, tick_modifiers                           *)
(***************************************************************************)

\* a / b rounded half away from zero, for a >= 0 and b > 0
RoundDiv(a, b) == (a \div b) + (IF a % b >= b - (a % b) THEN 1 ELSE 0)

\* the same for any a
RoundDivSigned(a, b) == IF a >= 0 THEN RoundDiv(a, b) ELSE -RoundDiv(-a, b)

\* the exponents at which f64::powi(10.0, p) stops being a finite nonzero number
PowiInfAbove == 308
PowiZeroBelow == -323

\* round_to: (num * 10^place).round() / 10^place.  With 10^place infinite or zero
\* the quotient is inf / inf or 0 / 0.  A finite num has FracDigits decimals, so
\* rounding at a finer place returns it; at a coarser place it is rounded to a
\* multiple of 10^-place (to 0 when that multiple is beyond the model's integers).
round_to(num, place) ==
    IF place > PowiInfAbove \/ place < PowiZeroBelow THEN NAN
    ELSE IF ~IsFin(num) THEN num
    ELSE IF place >= FracDigits THEN num
    ELSE IF FracDigits - place > 9 THEN Fin(0)
    ELSE Fin(RoundDivSigned(num.v, Pow10(FracDigits - place)) * Pow10(FracDigits - place))

\* (tick * 10^p).round() * 10^-3, lines 294-295.  A finite tick has FracDigits
\* decimals, so for p >= FracDigits the product is already an integer.
shifted_tick(tick, p) ==
    IF p > PowiInfAbove
    THEN (IF is_nan(tick) \/ (IsFin(tick) /\ tick.v = 0) THEN NAN
          ELSE IF tick.k = "ninf" \/ (IsFin(tick) /\ tick.v < 0) THEN NEG_INFINITY
          ELSE INFINITY)
    ELSE IF p < PowiZeroBelow THEN (IF IsFin(tick) THEN Fin(0) ELSE NAN)
    ELSE IF ~IsFin(tick) THEN tick
    ELSE IF p >= FracDigits
    THEN Fin(tick.v * Pow10(p - FracDigits) * Pow10(FracDigits - 3))
    ELSE IF FracDigits - p > 9 THEN Fin(0)
    ELSE Fin(RoundDivSigned(tick.v, Pow10(FracDigits - p)) * Pow10(FracDigits - 3))

\* the loop of decimals on num = n / d: num -= num.floor(); num *= 10.0;
\* push(num.floor())
RECURSIVE decimals_loop(_, _, _)
decimals_loop(n, d, ndigits) ==
    IF ndigits = 0 THEN <<>>
    ELSE LET m == (n % d) * 10
         IN <<m \div d>> \o decimals_loop(m, d, ndigits - 1)

\* decimals; a NaN or infinite num gives NaN at every step, which is pushed as 0
decimals(num, ndigits) ==
    IF IsFin(num) THEN decimals_loop(num.v, Unit, ndigits)
    ELSE [i \in 1..ndigits |-> 0]

\* rposition(|digit| digit != 0).map(|prec| prec + 1).unwrap_or(0), lines 303-311
digits_needed(tick, max_precision) ==
    LET ds == decimals(tick, max_precision)
        nz == {i \in 1..Len(ds) : ds[i] # 0}
    IN IF nz = {} THEN 0 ELSE CHOOSE i \in nz : \A j \in nz : j <= i

\* difs.iter().reduce(|max, dif| if dif > max {dif} else {max}) on a non-empty list
RECURSIVE reduce_max(_, _)
reduce_max(difs, max) ==
    IF difs = <<>> THEN max
    ELSE reduce_max(Tail(difs), IF FLt(max, Head(difs)) THEN Head(difs) ELSE max)

TmOk(offset, multiplier, precision) ==
    [status |-> "Ok", offset |-> offset, multiplier |-> multiplier, precision |-> precision]
TmOther(status) ==
    [status |-> status, offset |-> Fin(0), multiplier |-> 0, precision |-> 0]
BadTickPlacement == TmOther("BadTickPlacement")
TmPanic == TmOther("panic")

\* a sigdigit call that does not come back: the loop counter overflows after 2^31
\* iterations, which panics under overflow checks and wraps (the loop going on)
\* otherwise
TmDiverged(checks) == IF checks THEN TmPanic ELSE TmOther("noreturn")

\* lines 279-283 with the range written -2..3, its upper end excluded
resolve_multiplier_half_open(max_multiplier) ==
    IF max_multiplier \notin -2..2 THEN max_multiplier ELSE 0

\* lines 279-283: if !(-2..=3).contains(&max_multiplier) { max_multiplier } else { 0 }
resolve_multiplier(max_multiplier) ==
    IF max_multiplier \notin -2..3 THEN max_multiplier ELSE 0

\* lines 285-316 of tick_modifiers: max_precision, shifted_ticks, precision
tm_precision(ticks, offset, max_multiplier, multiplier, checks) ==
    LET max_precision == IF multiplier # 0 \/ max_multiplier < 0 THEN 3 ELSE 3 - max_multiplier
    IN IF multiplier # 0 /\ checks /\ I32SubOverflows(3, multiplier) THEN TmPanic
       ELSE LET shifted_ticks ==
                    IF multiplier # 0
                    THEN [i \in 1..Len(ticks) |-> shifted_tick(ticks[i], WSub(3, multiplier))]
                    ELSE ticks
                precs == {digits_needed(shifted_ticks[i], max_precision) :
                              i \in 1..Len(shifted_ticks)}
            IN TmOk(offset, multiplier, CHOOSE m \in precs : \A q \in precs : q <= m)

\* lines 268-283 of tick_modifiers: dif_multiplier, offset, the true multiplier
tm_multiplier(ticks, max_multiplier, max_dif, checks) ==
    LET last == ticks[Len(ticks)]
        s2 == IF ~FEq(max_dif, Fin(0)) THEN sigdigit(max_dif)
              ELSE [status |-> "ret", val |-> max_multiplier]
    IN IF s2.status # "ret" THEN TmDiverged(checks)
       ELSE IF checks /\ I32SubOverflows(max_multiplier, 3) THEN TmPanic
       ELSE LET dif_multiplier == s2.val
                offset == IF dif_multiplier < WSub(max_multiplier, 3) THEN ticks[1] ELSE Fin(0)
            IN IF checks /\ I32SubOverflows(3, dif_multiplier) THEN TmPanic
               ELSE LET s3 == sigdigit(round_to(FSub(last, offset), WSub(3, dif_multiplier)))
                    IN IF s3.status # "ret" THEN TmDiverged(checks)
                       ELSE tm_precision(ticks, offset, s3.val,
                                         resolve_multiplier(s3.val), checks)

\* tick_modifiers
tick_modifiers(ticks, checks) ==
    IF any_nan(ticks) THEN BadTickPlacement
    ELSE IF ticks = <<>> THEN TmOk(Fin(0), 0, 0)
    ELSE LET s1 == sigdigit(ticks[Len(ticks)])
         IN IF s1.status # "ret" THEN TmDiverged(checks)
            ELSE IF Len(ticks) < 2 THEN TmPanic
            ELSE LET difs == [i \in 1..(Len(ticks) - 1) |-> FSub(ticks[i + 1], ticks[i])]
                 IN tm_multiplier(ticks, s1.val, reduce_max(Tail(difs), Head(difs)), checks)

(***************************************************************************)
(* Tick specification: one call of tick_modifiers on a tick list.          *)
(***************************************************************************)
MaxTicks == 3

\* tick values, in two ranges so that a list shifted by its own multiplier stays
\* within the model's integers: NaN, +inf, -1, 0, 0.005, 1 and -1, 0, 1, 1000, 1001,
\* 20000, 20001
SmallTickVals ==
    { NAN, INFINITY, Fin(-Unit), Fin(0), Fin(5 * Pow10(FracDigits - 3)), Fin(Unit) }
LargeTickVals ==
    { Fin(-Unit), Fin(0), Fin(Unit), Fin(1000 * Unit), Fin(1001 * Unit),
      Fin(20000 * Unit), Fin(20001 * Unit) }

TickArgs ==
    UNION { [1..n -> SmallTickVals] \cup [1..n -> LargeTickVals] : n \in 0..MaxTicks }

TickInit ==
    /\ mode = "ticks"
    /\ tm = [pc |-> "start"]
    /\ overflow_checks \in BOOLEAN
    /\ phase = "idle"
    /\ subplot = DefaultSubplot
    /\ calls = 0
    /\ last_call = NoCall
    /\ figure = IdleFigure
    /\ fig_ret = IdleFigRet
    /\ sd = IdleSd
    /\ lay = IdleLay
    /\ render = IdleRender

\* tick_modifiers(ticks)
TickModifiers ==
    /\ tm.pc = "start"
    /\ \E ticks \in TickArgs :
          tm' = [pc |-> "returned", ticks |-> ticks,
                 out |-> tick_modifiers(ticks, overflow_checks)]
    /\ UNCHANGED <<mode, phase, subplot, calls, last_call, figure, fig_ret, sd, lay,
                   render, overflow_checks>>

TickNext == TickModifiers

TickSpec == TickInit /\ [][TickNext]_vars

\* C9: for a non-empty NaN-free tick list, the multiplier tick_modifiers returns
\* is 0 or lies outside [-2, 3].
C9_MultiplierZeroOrOutsideRange ==
    (tm.pc = "returned" /\ tm.ticks # <<>> /\ ~any_nan(tm.ticks) /\ tm.out.status = "Ok")
        => (tm.out.multiplier = 0 \/ tm.out.multiplier \notin -2..3)

\* a tick list whose resolved multiplier is a displayed power of ten
C9_Witness ==
    /\ tm.pc = "returned" /\ tm.ticks # <<>> /\ ~any_nan(tm.ticks)
    /\ tm.out.status = "Ok"
    /\ tm.out.multiplier > 3

\* a list of finite ticks with one more inserted at its place in ascending order
RECURSIVE InsertAscending(_, _)
InsertAscending(t, sorted) ==
    IF sorted = <<>> THEN <<t>>
    ELSE IF FLe(t, Head(sorted)) THEN <<t>> \o sorted
    ELSE <<Head(sorted)>> \o InsertAscending(t, Tail(sorted))

\* the ticks in ascending order
RECURSIVE Ascending(_)
Ascending(ticks) ==
    IF ticks = <<>> THEN <<>> ELSE InsertAscending(Head(ticks), Ascending(Tail(ticks)))

\* the largest gap between consecutive ticks of an ascending list of two or more
LargestGap(sorted) ==
    LET gaps == {sorted[i + 1].v - sorted[i].v : i \in 1..(Len(sorted) - 1)}
    IN Fin(CHOOSE g \in gaps : \A h \in gaps : h <= g)

\* the offset the tick list calls for: the smallest tick when the exponent of the
\* largest gap is more than 3 below the exponent of the largest tick, 0 otherwise
OffsetCalledFor(ticks) ==
    LET sorted == Ascending(ticks)
        largest == sorted[Len(sorted)]
    IN IF ExponentOf(LargestGap(sorted)) < ExponentOf(largest) - 3
       THEN sorted[1] ELSE Fin(0)

\* the tick lists on which both exponents are defined: two or more finite ticks,
\* the largest of them positive and not all of them equal
OffsetRuleApplies(ticks) ==
    /\ Len(ticks) >= 2
    /\ \A i \in 1..Len(ticks) : IsFin(ticks[i])
    /\ Ascending(ticks)[Len(ticks)].v > 0
    /\ LargestGap(Ascending(ticks)).v > 0

\* C11: for a NaN-free list of two or more ticks, supplied in any order,
\* tick_modifiers returns offset = the smallest tick when the exponent of the
\* largest gap between consecutive ticks in ascending order is more than 3 below
\* the exponent of the largest tick, and offset = 0 otherwise.
C11_OffsetRule ==
    (tm.pc = "returned" /\ OffsetRuleApplies(tm.ticks)) =>
        /\ tm.out.status = "Ok"
        /\ tm.out.offset = OffsetCalledFor(tm.ticks)

\* C22: for every list of finite ticks tick_modifiers returns Ok, without abort
\* and without integer overflow: (0, 0, 0) for the empty list, and an Ok result
\* also for a single tick, a last tick of 0, equal ticks and negative ticks.
C22_FiniteTicksGiveOk ==
    (tm.pc = "returned" /\ \A i \in 1..Len(tm.ticks) : IsFin(tm.ticks[i])) =>
        /\ tm.out.status = "Ok"
        /\ tm.ticks = <<>> => tm.out = TmOk(Fin(0), 0, 0)

(***************************************************************************)
(* figure.rs: the layout part of draw_subplot (tick lengths, letter size,  *)
(* the five buffers of each side, the title buffer, the nested rectangles) *)
(***************************************************************************)

\* the order of AxisType::iter()
AxisOrder == <<"X", "Y", "SecondaryX", "SecondaryY">>

\* scaling.round() as u32, scaling kept in hundredths
scaling_round(scaling) == (scaling + 50) \div 100

\* SubplotFormat: the fields the layout reads
SubplotFormat(tick_length, tick_direction, override_minor_tick_length) ==
    [ tick_length |-> tick_length, tick_direction |-> tick_direction,
      override_minor_tick_length |-> override_minor_tick_length ]

\* lines 384-416: the four tick lengths
outer_major_tick_length(format, scaling) ==
    IF format.tick_direction \in {"Outer", "Both"}
    THEN format.tick_length * scaling_round(scaling)
    ELSE 0

inner_major_tick_length(format, scaling) ==
    IF format.tick_direction \in {"Inner", "Both"}
    THEN format.tick_length * scaling_round(scaling)
    ELSE 0

minor_tick_length(format, scaling) ==
    IF format.override_minor_tick_length.some
    THEN format.override_minor_tick_length.length * scaling_round(scaling)
    ELSE (format.tick_length * scaling_round(scaling)) \div 2

outer_minor_tick_length(format, scaling) ==
    IF format.tick_direction \in {"Outer", "Both"} THEN minor_tick_length(format, scaling) ELSE 0

inner_minor_tick_length(format, scaling) ==
    IF format.tick_direction \in {"Inner", "Both"} THEN minor_tick_length(format, scaling) ELSE 0

\* lines 428-431: the canvas' size of "0" scaled, each side cast to u32
letter_size(text_size, scaling) ==
    [ width |-> (text_size[1] * scaling) \div 100,
      height |-> (text_size[2] * scaling) \div 100 ]

\* line 434: (letter_size.height as f64 * 0.6) as u32
buffer_offset(letter) == (letter.height * 6) \div 10

\* what the layout reads of a finalized axis: whether it has major ticks, minor
\* ticks, major labels, minor labels, a multiplier or offset, and an axis label
AxisLayout(major_ticks, minor_ticks, major_labels, minor_labels, modifier, label) ==
    [ major_ticks |-> major_ticks, minor_ticks |-> minor_ticks,
      major_labels |-> major_labels, minor_labels |-> minor_labels,
      modifier |-> modifier, label |-> label ]

ZeroBuffer == [a \in AxisType |-> 0]

\* lines 435-464: the five buffer maps
ZeroBuffers ==
    [ subplot_buffer |-> ZeroBuffer, label_buffer |-> ZeroBuffer,
      modifier_buffer |-> ZeroBuffer, tick_label_buffer |-> ZeroBuffer,
      tick_buffer |-> ZeroBuffer ]

\* lines 616-621: space for outer tick marks
add_tick_marks(b, placement, axis, format, scaling) ==
    IF axis.major_ticks
    THEN [b EXCEPT !.tick_buffer[placement] = @ + outer_major_tick_length(format, scaling)]
    ELSE IF axis.minor_ticks
    THEN [b EXCEPT !.tick_buffer[placement] = @ + outer_minor_tick_length(format, scaling)]
    ELSE b

\* lines 623-646: space for tick labels
add_tick_labels(b, placement, axis, letter) ==
    IF axis.major_labels \/ axis.minor_labels
    THEN LET tick_label_size == IF placement \in {"Y", "SecondaryY"}
                                THEN 5 * letter.width ELSE letter.height
         IN [b EXCEPT !.modifier_buffer[placement] = @ + tick_label_size,
                      !.tick_buffer[placement] = @ + buffer_offset(letter)]
    ELSE b

\* the space for the multiplier and offset taken on the axis' own side
add_modifier_own_side(b, placement, axis, letter) ==
    IF axis.modifier
    THEN [b EXCEPT !.modifier_buffer[placement] = @ + (letter.height * 2) \div 3,
                   !.tick_label_buffer[placement] = @ + buffer_offset(letter)]
    ELSE b

\* lines 648-661: space for the multiplier and offset
add_modifier(b, placement, axis, letter) ==
    IF axis.modifier /\ placement \in {"X", "Y"}
    THEN LET side == IF placement = "Y" THEN "SecondaryX" ELSE "X"
         IN [b EXCEPT !.modifier_buffer[side] = @ + (letter.height * 2) \div 3,
                      !.tick_label_buffer[side] = @ + buffer_offset(letter)]
    ELSE b

\* lines 663-668: space for the axis label
add_axis_label(b, placement, axis, letter) ==
    IF axis.label
    THEN [b EXCEPT !.label_buffer[placement] = @ + letter.height,
                   !.tick_label_buffer[placement] = @ + buffer_offset(letter)]
    ELSE b

\* the fixed clearance on every side
set_subplot_buffer_fixed(b, placement, letter) ==
    [b EXCEPT !.subplot_buffer[placement] = buffer_offset(letter)]

\* lines 670-678: the total subplot buffer of the side
set_subplot_buffer(b, placement, letter) ==
    [b EXCEPT !.subplot_buffer[placement] =
        IF b.tick_buffer[placement] + b.tick_label_buffer[placement]
               + b.modifier_buffer[placement] + b.label_buffer[placement] < letter.width * 2
        THEN letter.width * 3
        ELSE buffer_offset(letter)]

\* lines 614-678: one pass of the loop over the axes
adjust_buffers(b, placement, axis, format, scaling, letter) ==
    set_subplot_buffer(
        add_axis_label(
            add_modifier(
                add_tick_labels(
                    add_tick_marks(b, placement, axis, format, scaling),
                    placement, axis, letter),
                placement, axis, letter),
            placement, axis, letter),
        placement, letter)

\* the loop over AxisType::iter(), from its i-th pass on
RECURSIVE axes_loop(_, _, _, _, _, _)
axes_loop(b, i, axes_layout, format, scaling, letter) ==
    IF i > Len(AxisOrder) THEN b
    ELSE axes_loop(adjust_buffers(b, AxisOrder[i], axes_layout[AxisOrder[i]],
                                  format, scaling, letter),
                   i + 1, axes_layout, format, scaling, letter)

\* lines 698-703: space for the title
add_title(b, title, letter) ==
    IF title THEN [b EXCEPT !.label_buffer["SecondaryX"] = @ + buffer_offset(letter)] ELSE b

title_buffer(title, letter) == IF title THEN letter.height ELSE 0

\* a boundary drawn outside its enclosing rectangle: the buffers taken with the
\* opposite signs
inset_outward(outer, buf) ==
    Area(WSub(outer.xmin, buf["Y"]), WAdd(outer.xmax, buf["SecondaryY"]),
         WSub(outer.ymin, buf["X"]), WAdd(outer.ymax, buf["SecondaryX"]))

\* lines 715-732: a boundary is the enclosing one moved in by one buffer per side
inset(outer, buf) ==
    Area(WAdd(outer.xmin, buf["Y"]), WSub(outer.xmax, buf["SecondaryY"]),
         WAdd(outer.ymin, buf["X"]), WSub(outer.ymax, buf["SecondaryX"]))

\* some u32 operation of inset overflows
inset_overflows(outer, buf) ==
    \/ U32AddOverflows(outer.xmin, buf["Y"])
    \/ U32SubOverflows(outer.xmax, buf["SecondaryY"])
    \/ U32AddOverflows(outer.ymin, buf["X"])
    \/ U32SubOverflows(outer.ymax, buf["SecondaryX"])

\* lines 707-714: title_boundary is under the top subplot buffer and the title;
\* label_boundary is the area moved in by the subplot and label buffers
title_boundary(area, b, title, letter) ==
    WSub(WSub(area.ymax, b.subplot_buffer["SecondaryX"]), title_buffer(title, letter))

label_boundary(area, b, title, letter) ==
    Area(WAdd(WAdd(area.xmin, b.subplot_buffer["Y"]), b.label_buffer["Y"]),
         WSub(WSub(area.xmax, b.subplot_buffer["SecondaryY"]), b.label_buffer["SecondaryY"]),
         WAdd(WAdd(area.ymin, b.subplot_buffer["X"]), b.label_buffer["X"]),
         WSub(title_boundary(area, b, title, letter), b.label_buffer["SecondaryX"]))

label_boundary_overflows(area, b, title, letter) ==
    \/ U32SubOverflows(area.ymax, b.subplot_buffer["SecondaryX"])
    \/ U32SubOverflows(WSub(area.ymax, b.subplot_buffer["SecondaryX"]),
                       title_buffer(title, letter))
    \/ U32AddOverflows(area.xmin, b.subplot_buffer["Y"])
    \/ U32AddOverflows(WAdd(area.xmin, b.subplot_buffer["Y"]), b.label_buffer["Y"])
    \/ U32SubOverflows(area.xmax, b.subplot_buffer["SecondaryY"])
    \/ U32SubOverflows(WSub(area.xmax, b.subplot_buffer["SecondaryY"]),
                       b.label_buffer["SecondaryY"])
    \/ U32AddOverflows(area.ymin, b.subplot_buffer["X"])
    \/ U32AddOverflows(WAdd(area.ymin, b.subplot_buffer["X"]), b.label_buffer["X"])
    \/ U32SubOverflows(title_boundary(area, b, title, letter), b.label_buffer["SecondaryX"])

\* lines 418-740 of draw_subplot: the buffers and the rectangles, or a panic where
\* a u32 operation overflows under overflow checks
layout(format, scaling, text_size, axes_layout, title, area, checks) ==
    LET letter == letter_size(text_size, scaling)
        b == add_title(axes_loop(ZeroBuffers, 1, axes_layout, format, scaling, letter),
                       title, letter)
        lb == label_boundary(area, b, title, letter)
        mb == inset(lb, b.modifier_buffer)
        tlb == inset(mb, b.tick_label_buffer)
        tb == inset(tlb, b.tick_buffer)
        overflows == \/ label_boundary_overflows(area, b, title, letter)
                     \/ inset_overflows(lb, b.modifier_buffer)
                     \/ inset_overflows(mb, b.tick_label_buffer)
                     \/ inset_overflows(tlb, b.tick_buffer)
    IN [ status |-> IF checks /\ overflows THEN "panic" ELSE "laid out",
         buffers |-> b,
         title_buffer |-> title_buffer(title, letter),
         subplot_area |-> area,
         label_boundary |-> lb,
         modifier_boundary |-> mb,
         tick_label_boundary |-> tlb,
         tick_boundary |-> tb,
         plot_area |-> Area(tb.xmin, tb.xmax, tb.ymin, tb.ymax) ]

(***************************************************************************)
(* Layout specification: one call of draw_subplot, up to its rectangles.   *)
(***************************************************************************)

\* the axes tried: nothing to draw, a multiplier or offset only, tick marks only,
\* labelled tick marks, and everything (tick marks, labels, a multiplier or
\* offset, an axis label)
AxisLayouts ==
    { AxisLayout(FALSE, FALSE, FALSE, FALSE, FALSE, FALSE),
      AxisLayout(FALSE, FALSE, FALSE, FALSE, TRUE, FALSE),
      AxisLayout(TRUE, TRUE, FALSE, FALSE, FALSE, FALSE),
      AxisLayout(FALSE, TRUE, FALSE, TRUE, FALSE, FALSE),
      AxisLayout(TRUE, TRUE, TRUE, FALSE, TRUE, TRUE) }

NoLength == [some |-> FALSE, length |-> 0]
SomeLength(l) == [some |-> TRUE, length |-> l]

\* SubplotFormat::default() (tick_length 8, Inner) and outward ticks with an
\* overridden minor length
FormatArgs == { SubplotFormat(8, "Inner", NoLength), SubplotFormat(8, "Both", SomeLength(3)) }

\* scaling for 100 and 200 dpi
ScalingArgs == { 100, 200 }

\* the canvas' size of the text "0"
TextSizeArgs == { <<6, 10>> }

\* subplot areas: the whole of a 675 px figure, its upper right quarter, a 60 px
\* and a 20 px square, and an empty one
AreaArgs ==
    { Area(0, 675, 0, 675), Area(337, 674, 337, 674), Area(0, 60, 0, 60),
      Area(10, 30, 10, 30), Area(0, 0, 0, 0) }

LayoutInit ==
    /\ mode = "layout"
    /\ lay = [pc |-> "start"]
    /\ render = IdleRender
    /\ overflow_checks \in BOOLEAN
    /\ phase = "idle"
    /\ subplot = DefaultSubplot
    /\ calls = 0
    /\ last_call = NoCall
    /\ figure = IdleFigure
    /\ fig_ret = IdleFigRet
    /\ sd = IdleSd
    /\ tm = IdleTm

\* draw_subplot, from the formatting parameters to plot_area
DrawSubplotLayout ==
    /\ lay.pc = "start"
    /\ \E format \in FormatArgs, scaling \in ScalingArgs, text_size \in TextSizeArgs,
          axes_layout \in [AxisType -> AxisLayouts], title \in BOOLEAN, area \in AreaArgs :
          lay' = [ pc |-> "laid out",
                   format |-> format, scaling |-> scaling, text_size |-> text_size,
                   axes_layout |-> axes_layout, title |-> title,
                   out |-> layout(format, scaling, text_size, axes_layout, title, area,
                                  overflow_checks) ]
    /\ UNCHANGED <<mode, phase, subplot, calls, last_call, figure, fig_ret, sd, tm,
                   render, overflow_checks>>

LayoutNext == DrawSubplotLayout

LayoutSpec == LayoutInit /\ [][LayoutNext]_vars

\* inner lies within outer, as u32 pixel indices
Within(inner, outer) ==
    /\ U32Le(outer.xmin, inner.xmin) /\ U32Le(inner.xmax, outer.xmax)
    /\ U32Le(outer.ymin, inner.ymin) /\ U32Le(inner.ymax, outer.ymax)

\* the buffers reserved across (sides Y and SecondaryY) and along the height
\* (sides X and SecondaryX, and the title)
ReservedOn(b, side) ==
    b.subplot_buffer[side] + b.label_buffer[side] + b.modifier_buffer[side]
        + b.tick_label_buffer[side] + b.tick_buffer[side]
ReservedWidth(o) == ReservedOn(o.buffers, "Y") + ReservedOn(o.buffers, "SecondaryY")
ReservedHeight(o) ==
    ReservedOn(o.buffers, "X") + ReservedOn(o.buffers, "SecondaryX") + o.title_buffer

\* the subplot area is at least as wide and as high as the buffers reserved
AreaLargeEnough(o) ==
    /\ o.subplot_area.xmax - o.subplot_area.xmin >= ReservedWidth(o)
    /\ o.subplot_area.ymax - o.subplot_area.ymin >= ReservedHeight(o)

\* C8: when the subplot area is at least as wide and as high as the buffers
\* reserved in that dimension, draw_subplot's rectangles are nested, plot area
\* within tick boundary within tick-label boundary within modifier boundary
\* within label boundary within subplot area, and every buffer is >= 0.
C8_LayoutNested ==
    (lay.pc = "laid out" /\ AreaLargeEnough(lay.out)) =>
        /\ lay.out.status = "laid out"
        /\ Within(lay.out.plot_area, lay.out.tick_boundary)
        /\ Within(lay.out.tick_boundary, lay.out.tick_label_boundary)
        /\ Within(lay.out.tick_label_boundary, lay.out.modifier_boundary)
        /\ Within(lay.out.modifier_boundary, lay.out.label_boundary)
        /\ Within(lay.out.label_boundary, lay.out.subplot_area)
        /\ lay.out.title_buffer >= 0
        /\ \A a \in AxisType :
              /\ lay.out.buffers.subplot_buffer[a] >= 0
              /\ lay.out.buffers.label_buffer[a] >= 0
              /\ lay.out.buffers.modifier_buffer[a] >= 0
              /\ lay.out.buffers.tick_label_buffer[a] >= 0
              /\ lay.out.buffers.tick_buffer[a] >= 0

\* a titled subplot with tick marks, labels, a multiplier and an axis label on
\* every side, on an area large enough, each rectangle strictly inside the next
C8_Witness ==
    /\ lay.pc = "laid out" /\ AreaLargeEnough(lay.out)
    /\ lay.out.title_buffer > 0
    /\ \A a \in AxisType :
          /\ lay.out.buffers.label_buffer[a] > 0
          /\ lay.out.buffers.modifier_buffer[a] > 0
          /\ lay.out.buffers.tick_buffer[a] > 0
    /\ lay.out.tick_boundary # lay.out.tick_label_boundary
    /\ lay.out.tick_label_boundary # lay.out.modifier_boundary
    /\ lay.out.modifier_boundary # lay.out.label_boundary
    /\ lay.out.label_boundary # lay.out.subplot_area

(***************************************************************************)
(* Properties of the margins (checked under LayoutSpec)                     *)
(***************************************************************************)

\* the axes of the pass without their multipliers and offsets
WithoutModifiers(axes_layout) ==
    [a \in AxisType |-> [axes_layout[a] EXCEPT !.modifier = FALSE]]

\* the buffers the pass would reserve if no axis had a multiplier or an offset
BuffersWithoutModifiers ==
    add_title(axes_loop(ZeroBuffers, 1, WithoutModifiers(lay.axes_layout), lay.format,
                        lay.scaling, letter_size(lay.text_size, lay.scaling)),
              lay.title, letter_size(lay.text_size, lay.scaling))

\* the buffers of a side that hold its ticks, tick labels, scale annotation and
\* axis label
MarginOf(b, side) ==
    <<b.tick_buffer[side], b.tick_label_buffer[side], b.modifier_buffer[side],
      b.label_buffer[side]>>

\* C19: space for a scale annotation is reserved only for an axis with a
\* multiplier or an offset; that of Y is added to the SecondaryX margin and that
\* of X to the X margin; the Y and SecondaryY margins hold none, whichever axes
\* have one.
C19_AnnotationSpace ==
    lay.pc = "laid out" =>
        LET b == lay.out.buffers
            plain == BuffersWithoutModifiers
            letter == letter_size(lay.text_size, lay.scaling)
            annotation(a) == IF lay.axes_layout[a].modifier THEN 1 ELSE 0
        IN /\ MarginOf(b, "Y") = MarginOf(plain, "Y")
           /\ MarginOf(b, "SecondaryY") = MarginOf(plain, "SecondaryY")
           /\ b.subplot_buffer["Y"] = plain.subplot_buffer["Y"]
           /\ b.subplot_buffer["SecondaryY"] = plain.subplot_buffer["SecondaryY"]
           /\ MarginOf(b, "SecondaryX") =
                 <<plain.tick_buffer["SecondaryX"],
                   plain.tick_label_buffer["SecondaryX"]
                       + annotation("Y") * buffer_offset(letter),
                   plain.modifier_buffer["SecondaryX"]
                       + annotation("Y") * ((letter.height * 2) \div 3),
                   plain.label_buffer["SecondaryX"]>>
           /\ MarginOf(b, "X") =
                 <<plain.tick_buffer["X"],
                   plain.tick_label_buffer["X"] + annotation("X") * buffer_offset(letter),
                   plain.modifier_buffer["X"] + annotation("X") * ((letter.height * 2) \div 3),
                   plain.label_buffer["X"]>>

\* Y, SecondaryX and SecondaryY have a multiplier or offset and X has none: the
\* SecondaryX margin holds the annotation of Y alone and the X margin is empty
C19_Witness ==
    /\ lay.pc = "laid out"
    /\ lay.axes_layout["Y"].modifier
    /\ lay.axes_layout["SecondaryX"].modifier
    /\ lay.axes_layout["SecondaryY"].modifier
    /\ ~lay.axes_layout["X"].modifier
    /\ ~lay.axes_layout["SecondaryX"].major_labels
    /\ lay.out.buffers.modifier_buffer["SecondaryX"]
           = (letter_size(lay.text_size, lay.scaling).height * 2) \div 3
    /\ lay.out.buffers.modifier_buffer["X"] = 0

\* a rectangle with its corners in order, as u32 pixel indices
Ordered(rect) == U32Le(rect.xmin, rect.xmax) /\ U32Le(rect.ymin, rect.ymax)

\* C30: for every subplot area, one smaller than the buffers reserved included,
\* the u32 arithmetic of the boundaries never underflows, and every rectangle
\* derived has xmin <= xmax and ymin <= ymax.
C30_BoundariesNeverUnderflow ==
    lay.pc = "laid out" =>
        /\ lay.out.status = "laid out"
        /\ Ordered(lay.out.label_boundary)
        /\ Ordered(lay.out.modifier_boundary)
        /\ Ordered(lay.out.tick_label_boundary)
        /\ Ordered(lay.out.tick_boundary)
        /\ Ordered(lay.out.plot_area)

\* the buffers accumulated for a side by the loop over the axes: its tick,
\* tick-label, modifier and label buffers, the title's clearance not counted
Accumulated(b, side) ==
    b.tick_buffer[side] + b.tick_label_buffer[side] + b.modifier_buffer[side]
        + b.label_buffer[side]
        - (IF side = "SecondaryX" /\ lay.title
           THEN buffer_offset(letter_size(lay.text_size, lay.scaling)) ELSE 0)

\* C20: the subplot buffer of a side is three character widths when the buffers
\* accumulated for it (the annotation space of another axis included) are below
\* two character widths and the fixed clearance otherwise; every side of the plot
\* area is then at least two character widths inside the subplot area.
C20_BaseBuffer ==
    lay.pc = "laid out" =>
        LET b == lay.out.buffers
            letter == letter_size(lay.text_size, lay.scaling)
            area == lay.out.subplot_area
            inner == lay.out.plot_area
        IN /\ \A a \in AxisType :
                 /\ b.subplot_buffer[a] = IF Accumulated(b, a) < 2 * letter.width
                                          THEN 3 * letter.width
                                          ELSE buffer_offset(letter)
                 /\ ReservedOn(b, a) >= 2 * letter.width
           /\ (lay.out.status = "laid out" /\ AreaLargeEnough(lay.out)) =>
                 /\ inner.xmin - area.xmin >= 2 * letter.width
                 /\ area.xmax - inner.xmax >= 2 * letter.width
                 /\ inner.ymin - area.ymin >= 2 * letter.width
                 /\ area.ymax - inner.ymax >= 2 * letter.width

\* an area large enough whose X side has nothing on it and takes three character
\* widths, and whose SecondaryX side has nothing of its own but the annotation of
\* Y and takes the fixed clearance
C20_Witness ==
    /\ lay.pc = "laid out" /\ lay.out.status = "laid out" /\ AreaLargeEnough(lay.out)
    /\ lay.axes_layout["X"] = AxisLayout(FALSE, FALSE, FALSE, FALSE, FALSE, FALSE)
    /\ lay.axes_layout["SecondaryX"] = AxisLayout(FALSE, FALSE, FALSE, FALSE, FALSE, FALSE)
    /\ lay.axes_layout["Y"].modifier
    /\ ~lay.title
    /\ lay.out.buffers.subplot_buffer["X"] = 3 * letter_size(lay.text_size, lay.scaling).width
    /\ lay.out.buffers.subplot_buffer["SecondaryX"]
           = buffer_offset(letter_size(lay.text_size, lay.scaling))
    /\ lay.out.buffers.subplot_buffer["SecondaryX"] # lay.out.buffers.subplot_buffer["X"]

(***************************************************************************)
(* figure.rs: draw_subplot, the ticks and labels of each axis              *)
(***************************************************************************)

\* TickSpacing
SpacingOn == [tag |-> "On", n |-> 0, ticks |-> <<>>]
SpacingAuto == [tag |-> "Auto", n |-> 0, ticks |-> <<>>]
SpacingNone == [tag |-> "None", n |-> 0, ticks |-> <<>>]
Count(n) == [tag |-> "Count", n |-> n, ticks |-> <<>>]
ManualTicks(ticks) == [tag |-> "Manual", n |-> 0, ticks |-> ticks]

\* TickLabels, with Manual as draw_subplot destructures it
LabelsOn == [tag |-> "On", labels |-> <<>>, multiplier |-> 0, offset |-> Fin(0)]
LabelsAuto == [tag |-> "Auto", labels |-> <<>>, multiplier |-> 0, offset |-> Fin(0)]
LabelsNone == [tag |-> "None", labels |-> <<>>, multiplier |-> 0, offset |-> Fin(0)]
ManualLabels(labels, multiplier, offset) ==
    [tag |-> "Manual", labels |-> labels, multiplier |-> multiplier, offset |-> offset]

\* the fields of an axis that draw_subplot reads besides its limit policy
AxisDescriptor(major_spacing, major_labels, minor_spacing, minor_labels, grid, label) ==
    [ major_ticks |-> [spacing |-> major_spacing, labels |-> major_labels],
      minor_ticks |-> [spacing |-> minor_spacing, labels |-> minor_labels],
      grid |-> grid, label |-> label ]

\* an axis of SubplotDescriptor::default()
DefaultAxisDescriptor ==
    AxisDescriptor(SpacingOn, LabelsAuto, SpacingOn, LabelsNone, "None", "")

\* lines 489-492: the extent of a series along the axis
axis_extent(info, placement) ==
    IF placement \in {"Y", "SecondaryY"}
    THEN <<ymin(info.data), ymax(info.data)>>
    ELSE <<xmin(info.data), xmax(info.data)>>

\* lines 493-498: reduce(|(min, max), (next_min, next_max)| ...)
RECURSIVE reduce_extent(_, _)
reduce_extent(extents, acc) ==
    IF extents = <<>> THEN acc
    ELSE LET next == Head(extents)
             min == IF FLe(next[1], acc[1]) THEN next[1] ELSE acc[1]
             max == IF FLe(acc[2], next[2]) THEN next[2] ELSE acc[2]
         IN reduce_extent(Tail(extents), <<min, max>>)

NoSpanLimits ==
    [some |-> FALSE, span |-> <<Fin(0), Fin(0)>>, limits |-> <<Fin(0), Fin(0)>>]
SomeSpanLimits(span, lims) == [some |-> TRUE, span |-> span, limits |-> lims]

\* lines 469-514: span and limits of an axis, from its Manual limits or from the
\* series of plot_infos that use it
span_limits(s, placement) ==
    LET policy == s.axis[placement].limit_policy
    IN IF policy.tag = "Manual"
       THEN SomeSpanLimits(<<policy.min, policy.max>>, <<policy.min, policy.max>>)
       ELSE LET infos == SelectSeq(s.plot_infos,
                                   LAMBDA info : info.xaxis = placement \/ info.yaxis = placement)
                extents == [i \in 1..Len(infos) |-> axis_extent(infos[i], placement)]
            IN IF extents = <<>> THEN NoSpanLimits
               ELSE LET lim == reduce_extent(Tail(extents), Head(extents))
                        extent == FSub(lim[2], lim[1])
                    IN SomeSpanLimits(lim, <<FSub(lim[1], Mul005(extent)),
                                             FAdd(lim[2], Mul005(extent))>>)

opposite_side(placement) ==
    CASE placement = "Y" -> "SecondaryY"
      [] placement = "SecondaryY" -> "Y"
      [] placement = "X" -> "SecondaryX"
      [] placement = "SecondaryX" -> "X"

\* lines 527-545: the axis' own span and limits, else those of the opposite side,
\* else (-1.0, 1.0)
resolved_span_limits(s, placement) ==
    IF span_limits(s, placement).some THEN span_limits(s, placement)
    ELSE IF span_limits(s, opposite_side(placement)).some
    THEN span_limits(s, opposite_side(placement))
    ELSE SomeSpanLimits(<<Fin(-Unit), Fin(Unit)>>, <<Fin(-Unit), Fin(Unit)>>)

\* x * (n as f64 / d as f64): 0 / 0 is NaN, n / 0 is infinite, infinity * 0 is NaN
mul_fraction(x, n, d) ==
    IF is_nan(x) \/ (d = 0 /\ n = 0) THEN NAN
    ELSE IF d = 0
    THEN (IF IsFin(x) /\ x.v = 0 THEN NAN
          ELSE IF FLt(x, Fin(0)) THEN NEG_INFINITY ELSE INFINITY)
    ELSE IF ~IsFin(x) THEN (IF n = 0 THEN NAN ELSE x)
    ELSE Fin(RoundDivSigned(x.v * n, d))

\* lines 559-563: (0..nticks).map(|n| span.0 + (span.1 - span.0) * (n / (nticks - 1)))
evenly_spaced(span, nticks) ==
    [i \in 1..nticks |->
        FAdd(span[1], mul_fraction(FSub(span[2], span[1]), i - 1, nticks - 1))]

\* lines 548-564: the major ticks
major_ticks(axis, span) ==
    IF axis.major_ticks.spacing.tag = "Manual" THEN axis.major_ticks.spacing.ticks
    ELSE LET nticks == CASE axis.major_ticks.spacing.tag = "Count" -> axis.major_ticks.spacing.n
                         [] axis.major_ticks.spacing.tag = "Auto" -> 5
                         [] OTHER -> 0
         IN evenly_spaced(span, nticks)

\* lines 566-587: the minor ticks, those equal to a major tick removed
minor_ticks(axis, span, major) ==
    LET all == IF axis.minor_ticks.spacing.tag = "Manual" THEN axis.minor_ticks.spacing.ticks
               ELSE LET nticks ==
                            CASE axis.minor_ticks.spacing.tag = "Count" ->
                                     axis.minor_ticks.spacing.n
                              [] axis.minor_ticks.spacing.tag = "Auto" -> 5 * Len(major)
                              [] OTHER -> 0
                    IN evenly_spaced(span, nticks)
    IN SelectSeq(all, LAMBDA tick : ~\E j \in 1..Len(major) : FEq(major[j], tick))

LabelsOk(labels) == [status |-> "Ok", labels |-> labels]
LabelsFailed(status) == [status |-> status, labels |-> <<>>]

\* ticks_to_labels: a label is the text of a number at a precision
ticks_to_labels(ticks, modifiers, checks) ==
    IF any_nan(ticks) THEN LabelsFailed("BadTickPlacement")
    ELSE IF ticks = <<>> THEN LabelsOk(<<>>)
    ELSE IF checks /\ (I32SubOverflows(4, modifiers.multiplier)
                       \/ I32SubOverflows(3, modifiers.multiplier))
    THEN LabelsFailed("panic")
    ELSE LET sorted == Ascending(ticks)
             rounded == [i \in 1..Len(sorted) |->
                            round_to(FSub(sorted[i], modifiers.offset),
                                     WSub(4, modifiers.multiplier))]
             shifted_ticks ==
                 IF modifiers.multiplier # 0
                 THEN [i \in 1..Len(rounded) |->
                          shifted_tick(rounded[i], WSub(3, modifiers.multiplier))]
                 ELSE rounded
         IN LabelsOk([i \in 1..Len(shifted_ticks) |->
                         [number |-> shifted_ticks[i], precision |-> modifiers.precision]])

AxisFinalized(status, label, major_locs, major_labels, minor_locs, minor_labels, multiplier, offset, grid, lims) ==
    [ status |-> status, label |-> label,
      major_tick_locs |-> major_locs, major_tick_labels |-> major_labels,
      minor_tick_locs |-> minor_locs, minor_tick_labels |-> minor_labels,
      label_multiplier |-> multiplier, label_offset |-> offset,
      major_grid |-> grid \in {"Major", "Full"}, minor_grid |-> grid = "Full",
      limits |-> lims ]

\* an axis whose labels could not be made: the ticks placed and the failure
AxisFailed(status, major_locs, minor_locs) ==
    AxisFinalized(status, "", major_locs, <<>>, minor_locs, <<>>, 0, Fin(0), "None",
                  <<Fin(0), Fin(0)>>)

\* body applied to the value of an expression, the expression evaluated once
Bind(value, body(_)) == CHOOSE result \in { body(bound) : bound \in {value} } : TRUE

\* lines 589-606 and 680-695: the labels of the ticks placed, and the axis finalized
label_axis(axis, sl, major, minor, modifiers, checks) ==
    LET major_manual == axis.major_ticks.labels.tag = "Manual"
        minor_manual == axis.minor_ticks.labels.tag = "Manual"
    IN IF ~major_manual /\ modifiers.status # "Ok"
       THEN AxisFailed(modifiers.status, major, minor)
       ELSE Bind(ticks_to_labels(major, modifiers, checks), LAMBDA auto_major :
            IF ~major_manual /\ auto_major.status # "Ok"
            THEN AxisFailed(auto_major.status, major, minor)
            ELSE IF ~minor_manual /\ modifiers.status # "Ok"
            THEN AxisFailed(modifiers.status, major, minor)
            ELSE Bind(ticks_to_labels(minor, modifiers, checks), LAMBDA auto_minor :
                 IF ~minor_manual /\ auto_minor.status # "Ok"
                 THEN AxisFailed(auto_minor.status, major, minor)
                 ELSE AxisFinalized("Ok", axis.label, major,
                                    IF major_manual THEN axis.major_ticks.labels.labels
                                    ELSE auto_major.labels,
                                    minor,
                                    IF minor_manual THEN axis.minor_ticks.labels.labels
                                    ELSE auto_minor.labels,
                                    IF major_manual THEN axis.major_ticks.labels.multiplier
                                    ELSE modifiers.multiplier,
                                    IF major_manual THEN axis.major_ticks.labels.offset
                                    ELSE modifiers.offset,
                                    axis.grid, sl.limits)))

\* lines 518-612 and 680-695: one pass of the loop over the axes, the buffers aside
finalize_axis(s, axis, placement, checks) ==
    Bind(resolved_span_limits(s, placement), LAMBDA sl :
    Bind(major_ticks(axis, sl.span), LAMBDA major :
    Bind(minor_ticks(axis, sl.span, major), LAMBDA minor :
    Bind(tick_modifiers(major, checks), LAMBDA modifiers :
         label_axis(axis, sl, major, minor, modifiers, checks)))))

\* lines 516-696: finalized_axes, and the first failure met in the order of
\* AxisType::iter()
finalized_axes(s, axes_desc, checks) ==
    Bind([ X |-> finalize_axis(s, axes_desc["X"], "X", checks),
           Y |-> finalize_axis(s, axes_desc["Y"], "Y", checks),
           SecondaryX |-> finalize_axis(s, axes_desc["SecondaryX"], "SecondaryX", checks),
           SecondaryY |-> finalize_axis(s, axes_desc["SecondaryY"], "SecondaryY", checks) ],
         LAMBDA fin :
            Bind({i \in 1..Len(AxisOrder) : fin[AxisOrder[i]].status # "Ok"},
                 LAMBDA failed :
                    [ status |-> IF failed = {} THEN "Ok"
                                 ELSE fin[AxisOrder[CHOOSE i \in failed :
                                                       \A j \in failed : i <= j]].status,
                      axes |-> fin ]))

(***************************************************************************)
(* figure.rs: draw_subplot, the calls made on the backend                  *)
(***************************************************************************)

\* lines 214-240: superscript(n: u16), the digits of n from the most significant
Digit(d) == <<"0", "1", "2", "3", "4", "5", "6", "7", "8", "9">>[d + 1]
RECURSIVE superscript(_)
superscript(n) ==
    IF n < 10 THEN <<Digit(n)>> ELSE superscript(n \div 10) \o superscript(n % 10)

\* `as u16` of an i32: the low 16 bits
as_u16(n) == n % 65536

\* lines 991-1002: the text of the multiplier and offset of an axis, as the parts
\* format! puts together: "x10" and the exponent, "+" and the offset
ModifierText(x10, exponent, plus, offset) ==
    [x10 |-> x10, exponent |-> exponent, plus |-> plus, offset |-> offset]
NoModifierText == ModifierText(FALSE, <<>>, FALSE, Fin(0))
mult_offset_text(axis) ==
    IF axis.label_multiplier # 0 /\ ~FEq(axis.label_offset, Fin(0))
    THEN ModifierText(TRUE, superscript(as_u16(axis.label_multiplier)), TRUE, axis.label_offset)
    ELSE IF axis.label_multiplier # 0
    THEN ModifierText(TRUE, superscript(as_u16(axis.label_multiplier)), FALSE, Fin(0))
    ELSE IF ~FEq(axis.label_offset, Fin(0))
    THEN ModifierText(FALSE, <<>>, TRUE, axis.label_offset)
    ELSE NoModifierText

\* a drawing call on the canvas: the method, what is drawn, the axis or the entry
\* of plot_infos it is drawn for, and the tick or data point within it; the text
\* is kept of the call that draws the multiplier and offset
Call(method, what, axis, entry, item) ==
    [method |-> method, what |-> what, axis |-> axis, entry |-> entry, item |-> item,
     text |-> NoModifierText]

\* lines 743-755: the plot color
plot_color_call == Call("draw_shape", "background", "-", 0, 0)

\* lines 760-809: the grid lines of one axis, major ticks then minor ticks
grid_lines(placement, axis) ==
    (IF axis.major_grid
     THEN [i \in 1..Len(axis.major_tick_locs) |->
              Call("draw_line", "major grid line", placement, 0, i)]
     ELSE <<>>)
    \o (IF axis.minor_grid
        THEN [i \in 1..Len(axis.minor_tick_locs) |->
                 Call("draw_line", "minor grid line", placement, 0, i)]
        ELSE <<>>)

\* the number of (x, y) pairs SeriesData::data() yields
data_len(data) ==
    IF data.kind = "points"
    THEN (IF Len(data.xdata) <= Len(data.ydata) THEN Len(data.xdata) ELSE Len(data.ydata))
    ELSE LET edges == IF Len(data.xdata) >= 2 THEN 2 * (Len(data.xdata) - 1) ELSE 0
         IN IF edges <= 2 * Len(data.ydata) THEN edges ELSE 2 * Len(data.ydata)

\* lines 823-926: the curve and the markers of the entries of plot_infos from the
\* i-th on
RECURSIVE draw_plots(_, _)
draw_plots(plot_infos, i) ==
    IF i > Len(plot_infos) THEN <<>>
    ELSE (IF plot_infos[i].line THEN <<Call("draw_curve", "curve", "-", i, 0)>> ELSE <<>>)
         \o (IF plot_infos[i].marker
             THEN [p \in 1..data_len(plot_infos[i].data) |->
                      Call("draw_shape", "marker", "-", i, p)]
             ELSE <<>>)
         \o draw_plots(plot_infos, i + 1)

DrawnOk(issued) == [status |-> "Ok", axis |-> "-", calls |-> issued]
DrawnBadTickLabels(placement, issued) ==
    [status |-> "BadTickLabels", axis |-> placement, calls |-> issued]

\* lines 1115-1238: the tick marks and tick labels of one list of ticks
draw_ticks(placement, which, ticks, labels) ==
    IF labels # <<>> /\ Len(labels) # Len(ticks) THEN DrawnBadTickLabels(placement, <<>>)
    ELSE LET n == IF labels = <<>> THEN Len(ticks)
                  ELSE IF Len(labels) <= Len(ticks) THEN Len(labels) ELSE Len(ticks)
         IN DrawnOk([k \in 1..(2 * n) |->
                        IF k % 2 = 1
                        THEN Call("draw_line", which \o " tick", placement, 0, (k + 1) \div 2)
                        ELSE Call("draw_text", which \o " tick label", placement, 0, k \div 2)])

\* lines 930-1239: the axis line, the multiplier and offset, the axis label, the
\* major and the minor ticks of one axis
draw_axis(placement, axis) ==
    LET head == << Call("draw_line", "axis line", placement, 0, 0),
                   [Call("draw_text", "modifier", placement, 0, 0)
                       EXCEPT !.text = mult_offset_text(axis)],
                   Call("draw_text", "axis label", placement, 0, 0) >>
    IN Bind(draw_ticks(placement, "major", axis.major_tick_locs, axis.major_tick_labels),
            LAMBDA major :
               IF major.status # "Ok" THEN DrawnBadTickLabels(placement, head)
               ELSE Bind(draw_ticks(placement, "minor", axis.minor_tick_locs,
                                    axis.minor_tick_labels),
                         LAMBDA minor :
                            IF minor.status # "Ok"
                            THEN DrawnBadTickLabels(placement, head \o major.calls)
                            ELSE DrawnOk(head \o major.calls \o minor.calls)))

\* lines 929-1240: the axes in the order the map yields them, from the i-th on
RECURSIVE draw_axes(_, _, _)
draw_axes(order, axes_finalized, i) ==
    IF i > Len(order) THEN DrawnOk(<<>>)
    ELSE Bind(draw_axis(order[i], axes_finalized[order[i]]), LAMBDA first :
              IF first.status # "Ok" THEN first
              ELSE [draw_axes(order, axes_finalized, i + 1) EXCEPT !.calls = first.calls \o @])

\* lines 1243-1257: the title
title_call == Call("draw_text", "title", "-", 0, 0)

\* the drawing calls with the title drawn before the axes
draw_calls_title_early(s, axes_finalized, order) ==
    LET before == <<plot_color_call, title_call>>
                    \o grid_lines(order[1], axes_finalized[order[1]])
                    \o grid_lines(order[2], axes_finalized[order[2]])
                    \o grid_lines(order[3], axes_finalized[order[3]])
                    \o grid_lines(order[4], axes_finalized[order[4]])
                    \o draw_plots(s.plot_infos, 1)
    IN [draw_axes(order, axes_finalized, 1) EXCEPT !.calls = before \o @]

\* lines 742-1259: the drawing calls of a pass, order being the order in which
\* the map finalized_axes yields its four keys
draw_calls(s, axes_finalized, order) ==
    LET before == <<plot_color_call>>
                    \o grid_lines(order[1], axes_finalized[order[1]])
                    \o grid_lines(order[2], axes_finalized[order[2]])
                    \o grid_lines(order[3], axes_finalized[order[3]])
                    \o grid_lines(order[4], axes_finalized[order[4]])
                    \o draw_plots(s.plot_infos, 1)
    IN Bind(draw_axes(order, axes_finalized, 1), LAMBDA drawn :
            IF drawn.status # "Ok" THEN [drawn EXCEPT !.calls = before \o @]
            ELSE DrawnOk(before \o drawn.calls \o <<title_call>>))

\* what the layout reads of a finalized axis
axis_layout_of(axis) ==
    AxisLayout(axis.major_tick_locs # <<>>, axis.minor_tick_locs # <<>>,
               axis.major_tick_labels # <<>>, axis.minor_tick_labels # <<>>,
               axis.label_multiplier # 0 \/ ~FEq(axis.label_offset, Fin(0)),
               axis.label # "")

axes_layout_of(axes_finalized) ==
    [ X |-> axis_layout_of(axes_finalized["X"]),
      Y |-> axis_layout_of(axes_finalized["Y"]),
      SecondaryX |-> axis_layout_of(axes_finalized["SecondaryX"]),
      SecondaryY |-> axis_layout_of(axes_finalized["SecondaryY"]) ]

\* lines 367-740 of draw_subplot: the ticks and labels of the axes, then the
\* rectangles; nothing is drawn yet
plan_subplot(s, axes_desc, title, format, scaling, text_size, area, checks) ==
    Bind(finalized_axes(s, axes_desc, checks), LAMBDA fa :
    Bind(axes_layout_of(fa.axes), LAMBDA axes_layout :
         [ status |-> IF fa.status # "Ok" THEN fa.status
                      ELSE IF layout(format, scaling, text_size, axes_layout, title # "",
                                     area, checks).status = "panic"
                      THEN "panic" ELSE "Ok",
           axes |-> fa.axes ]))

\* draw_subplot: the plan, then the drawing calls, the axes drawn in the order
\* in which the map yields them
draw_subplot(s, planned, order) ==
    IF planned.status # "Ok"
    THEN [status |-> planned.status, axis |-> "-", calls |-> <<>>, axes |-> planned.axes]
    ELSE Bind(draw_calls(s, planned.axes, order), LAMBDA drawn :
              [status |-> drawn.status, axis |-> drawn.axis, calls |-> drawn.calls,
               axes |-> planned.axes])

(***************************************************************************)
(* Render specifications: a subplot is built and filled through the API,   *)
(* then drawn by draw_subplot, once per pass of draw_to_backend: one pass   *)
(* (RenderSpec), or up to MaxPasses of them (RepeatSpec).                   *)
(***************************************************************************)
MaxPasses == 2

\* the orders in which a HashMap<AxisType, _> can yield its four keys: the hasher
\* of each map is seeded anew (RandomState), so the order is any of them
HashOrders == {o \in [1..4 -> AxisType] : \A a \in AxisType : \E i \in 1..4 : o[i] = a}

\* subplots as registration leaves them: nothing plotted; one line; a line then a
\* fill; a fill then markers on the secondary axes; a line, then a step series
\* with neither line nor marker; a line on an X axis with manual limits
OnePlot == plot(DefaultSubplot, PlotDescriptor(FALSE, FALSE), <<Lo, Hi>>, <<Lo, Hi>>).subplot
PlotThenFill ==
    fill_between(OnePlot, FillDescriptor(FALSE, FALSE, "", "none"),
                 <<Lo, Hi>>, <<Lo, Lo>>, <<Hi, Hi>>).subplot
FillThenMarkers ==
    plot(fill_between(DefaultSubplot, FillDescriptor(TRUE, TRUE, "fill", "red"),
                      <<Lo, Hi>>, <<Lo, Lo>>, <<Hi, Hi>>).subplot,
         [PlotDescriptor(TRUE, TRUE) EXCEPT !.marker = TRUE], <<Lo, Hi>>, <<Hi, Lo>>).subplot
PlotThenBareStep ==
    step(OnePlot, [PlotDescriptor(FALSE, FALSE) EXCEPT !.line = FALSE],
         <<Lo, Fin(0), Hi>>, <<Lo, Hi>>).subplot
PlotOnManualAxis ==
    plot(limits(DefaultSubplot, "X", Manual(Fin(0), Fin(2 * Unit))),
         PlotDescriptor(FALSE, FALSE), <<Lo, Hi>>, <<Lo, Hi>>).subplot

\* a fill and no series; a line whose y values are all equal
FillOnly ==
    fill_between(DefaultSubplot, FillDescriptor(FALSE, FALSE, "", "none"),
                 <<Lo, Hi>>, <<Lo, Lo>>, <<Hi, Hi>>).subplot
FlatPlot == plot(DefaultSubplot, PlotDescriptor(FALSE, FALSE), <<Lo, Hi>>, <<Hi, Hi>>).subplot

RenderSubplots ==
    { DefaultSubplot, OnePlot, PlotThenFill, FillThenMarkers, PlotThenBareStep,
      PlotOnManualAxis, FillOnly, FlatPlot }

\* axes: n evenly spaced major ticks with a major grid and an axis label; major
\* ticks only if used; three major and five minor ticks with a full grid; two
\* major ticks with k manual labels; a minor tick with k manual labels
CountAxis(n) == AxisDescriptor(Count(n), LabelsAuto, SpacingNone, LabelsNone, "Major", "x")
AutoAxis == AxisDescriptor(SpacingAuto, LabelsAuto, SpacingNone, LabelsNone, "None", "")
GridAxis == AxisDescriptor(Count(3), LabelsAuto, Count(5), LabelsAuto, "Full", "y")
TextLabels(k) == [i \in 1..k |-> "label"]
MajorLabelled(k) ==
    AxisDescriptor(Count(2), ManualLabels(TextLabels(k), 0, Fin(0)),
                   SpacingNone, LabelsNone, "None", "")
MinorLabelled(k) ==
    AxisDescriptor(Count(2), LabelsAuto,
                   Count(3), ManualLabels(TextLabels(k), 0, Fin(0)), "None", "")

AllAxes(d) == [a \in AxisType |-> d]
OneAxis(a, d) == [AllAxes(DefaultAxisDescriptor) EXCEPT ![a] = d]

\* the tick settings tried on every subplot: the default ones, and ticks only if
\* the axis is used
SpacingSettings == { AllAxes(DefaultAxisDescriptor), AllAxes(AutoAxis) }

\* the tick settings tried on the subplots holding one series: a full grid on
\* every axis, and a fixed count of ticks on the X or the secondary Y axis
CountSettings ==
    { AllAxes(GridAxis) }
        \cup { OneAxis(a, CountAxis(n)) : a \in {"X", "SecondaryY"}, n \in 1..3 }

\* the label settings tried on the subplot with one line
LabelSettings ==
    { OneAxis(a, MajorLabelled(k)) : a \in {"X", "SecondaryY"}, k \in 0..3 }
        \cup { OneAxis("Y", MinorLabelled(k)) : k \in 0..2 }

\* major ticks at given places with labels made from them: ascending, not
\* ascending, a small step from 0 and a large step from 0
ManualAxis(ticks) ==
    AxisDescriptor(ManualTicks(ticks), LabelsAuto, SpacingNone, LabelsNone, "None", "")
ManualTickLists ==
    { <<Fin(Unit), Fin(2 * Unit), Fin(3 * Unit)>>,
      <<Fin(Unit), Fin(3 * Unit), Fin(2 * Unit)>>,
      <<Fin(0), Fin(5 * Pow10(FracDigits - 3))>>,
      <<Fin(0), Fin(20000 * Unit)>> }
ManualSettings == { OneAxis("X", ManualAxis(ticks)) : ticks \in ManualTickLists }

\* (subplot, axes, title) as draw_subplot is handed them
RenderArgs ==
    { <<s, d, "">> : s \in RenderSubplots, d \in SpacingSettings }
        \cup { <<s, d, "">> : s \in {OnePlot, FillThenMarkers}, d \in CountSettings }
        \cup { <<PlotOnManualAxis, OneAxis("X", CountAxis(3)), "">> }
        \cup { <<OnePlot, d, "">> : d \in LabelSettings }
        \cup { <<OnePlot, d, "Title">> : d \in {AllAxes(AutoAxis), AllAxes(GridAxis)} }
        \cup { <<OnePlot, d, "">> : d \in ManualSettings }

NoPass == [status |-> "none", axis |-> "-", calls |-> <<>>]

\* the subplots drawn more than once
RepeatArgs ==
    { <<DefaultSubplot, AllAxes(DefaultAxisDescriptor), "">>,
      <<OnePlot, AllAxes(GridAxis), "Title">>,
      <<FillThenMarkers, AllAxes(AutoAxis), "">>,
      <<OnePlot, OneAxis("X", MajorLabelled(3)), "">> }

\* a subplot built and filled, to be drawn limit times
BuiltToDraw(args, limit) ==
    /\ mode = "render"
    /\ \E arg \in args :
          /\ subplot = arg[1]
          /\ render = [ pc |-> "built", axes |-> arg[2], title |-> arg[3], limit |-> limit,
                        passes |-> 0, first |-> NoPass, last |-> NoPass ]
    /\ overflow_checks \in BOOLEAN
    /\ phase = "built"
    /\ calls = 0
    /\ last_call = NoCall
    /\ figure = IdleFigure
    /\ fig_ret = IdleFigRet
    /\ sd = IdleSd
    /\ tm = IdleTm
    /\ lay = IdleLay

\* the subplot is drawn once
RenderInit == BuiltToDraw(RenderArgs, 1)

\* the subplot is drawn up to MaxPasses times
RepeatInit == BuiltToDraw(RepeatArgs, MaxPasses)

\* one pass: draw_subplot(canvas, subplot, subplot_area, scaling) on the area of a
\* 675 px figure at 100 dpi, with SubplotFormat::default()
DrawSubplot ==
    /\ render.pc = "built"
    /\ render.passes < render.limit
    /\ \E planned \in { plan_subplot(subplot, render.axes, render.title,
                                      SubplotFormat(8, "Inner", NoLength), 100, <<6, 10>>,
                                      Area(0, 675, 0, 675), overflow_checks) } :
          \E order \in HashOrders :
             \E done \in { draw_subplot(subplot, planned, order) } :
                render' = [render EXCEPT !.passes = @ + 1,
                                         !.first = IF render.passes = 0 THEN done ELSE @,
                                         !.last = done]
    /\ UNCHANGED <<mode, phase, subplot, calls, last_call, figure, fig_ret, sd, tm, lay,
                   overflow_checks>>

RenderNext == DrawSubplot

RenderSpec == RenderInit /\ [][RenderNext]_vars

RepeatSpec == RepeatInit /\ [][RenderNext]_vars

\* min + (max - min) * i / (n - 1): the i-th of n ticks spread evenly over a span,
\* the only tick of one being the minimum
TickCalledFor(span, i, n) ==
    IF n = 1 THEN span.lo
    ELSE Fin(span.lo.v + RoundDivSigned((span.hi.v - span.lo.v) * i, n - 1))

\* C12: on an axis with a fixed tick count n >= 1 and span (min, max), the pass
\* places exactly n major ticks, the i-th at min + (max - min) * i / (n - 1), and
\* none of them is NaN.
C12_CountTicksEvenlySpaced ==
    render.passes > 0 =>
        \A a \in AxisType :
            LET spacing == render.axes[a].major_ticks.spacing
                span == subplot.axis[a].span
                ticks == render.last.axes[a].major_tick_locs
            IN (spacing.tag = "Count" /\ spacing.n >= 1
                    /\ span.some /\ IsFin(span.lo) /\ IsFin(span.hi)) =>
                   /\ Len(ticks) = spacing.n
                   /\ ~any_nan(ticks)
                   /\ \A i \in 1..Len(ticks) : ticks[i] = TickCalledFor(span, i - 1, spacing.n)

\* C13: an axis whose major tick spacing is TickSpacing::On has major ticks in
\* every pass, whether or not a series is plotted on it.
C13_OnAxisHasTicks ==
    render.passes > 0 =>
        \A a \in AxisType :
            render.axes[a].major_ticks.spacing.tag = "On" =>
                render.last.axes[a].major_tick_locs # <<>>

\* some entry of the subplot, series or fill, is assigned to the axis
AxisUsed(s, a) ==
    \/ \E i \in 1..Len(s.plot_infos) : s.plot_infos[i].xaxis = a \/ s.plot_infos[i].yaxis = a
    \/ \E i \in 1..Len(s.fill_infos) : s.fill_infos[i].xaxis = a \/ s.fill_infos[i].yaxis = a

\* C14: an axis whose major tick spacing is TickSpacing::Auto has major ticks in
\* a pass if and only if some plotted entry is assigned to it.
C14_AutoAxisTicksIffUsed ==
    render.passes > 0 =>
        \A a \in AxisType :
            render.axes[a].major_ticks.spacing.tag = "Auto" =>
                (render.last.axes[a].major_tick_locs # <<>> <=> AxisUsed(subplot, a))

\* the manual label lists of the axes: the axis, the labels and the ticks they
\* are for
ManualLabelLists ==
    { [axis |-> a, labels |-> render.axes[a].major_ticks.labels.labels,
       ticks |-> render.last.axes[a].major_tick_locs] :
         a \in {b \in AxisType : render.axes[b].major_ticks.labels.tag = "Manual"} }
    \cup
    { [axis |-> a, labels |-> render.axes[a].minor_ticks.labels.labels,
       ticks |-> render.last.axes[a].minor_tick_locs] :
         a \in {b \in AxisType : render.axes[b].minor_ticks.labels.tag = "Manual"} }

\* C15: for every axis and for major and minor ticks alike, a manual label list
\* whose length differs from the number of ticks makes the pass fail with
\* BadTickLabels naming that axis; lists of the right length do not.
C15_LabelCountMismatchFails ==
    (render.passes > 0 /\ render.last.status \in {"Ok", "BadTickLabels"}) =>
        /\ \A l \in ManualLabelLists :
              Len(l.labels) # Len(l.ticks) =>
                  (render.last.status = "BadTickLabels" /\ render.last.axis = l.axis)
        /\ (\A l \in ManualLabelLists : Len(l.labels) = Len(l.ticks)) =>
              render.last.status # "BadTickLabels"

\* the stage of a pass a drawing call belongs to: the background, the grid, the
\* series, the axes (line, modifier, label, tick marks, tick labels), the title
StageOf(call) ==
    CASE call.what = "background" -> 0
      [] call.what \in {"major grid line", "minor grid line"} -> 1
      [] call.what \in {"curve", "marker"} -> 2
      [] call.what = "title" -> 4
      [] OTHER -> 3

\* C16: in a successful pass the background fill is the first drawing call, the
\* grid lines come before every curve and marker, these before every axis line,
\* modifier, axis label, tick mark and tick label, and the title is the last call.
C16_DrawingOrder ==
    (render.passes > 0 /\ render.last.status = "Ok") =>
        LET issued == render.last.calls
        IN /\ issued # <<>>
           /\ issued[1].what = "background"
           /\ issued[Len(issued)].what = "title"
           /\ \A i \in 1..Len(issued) :
                 /\ (StageOf(issued[i]) = 0 => i = 1)
                 /\ (StageOf(issued[i]) = 4 => i = Len(issued))
                 /\ \A j \in i..Len(issued) : StageOf(issued[i]) <= StageOf(issued[j])

\* a successful pass that draws grid lines, a curve, markers and labelled ticks
C16_Witness ==
    /\ render.passes > 0 /\ render.last.status = "Ok"
    /\ \E i \in 1..Len(render.last.calls) : render.last.calls[i].what = "minor grid line"
    /\ \E i \in 1..Len(render.last.calls) : render.last.calls[i].what = "curve"
    /\ \E i \in 1..Len(render.last.calls) : render.last.calls[i].what = "marker"
    /\ \E i \in 1..Len(render.last.calls) : render.last.calls[i].what = "major tick label"

\* C17: two successful passes over the same subplot, area and scaling issue the
\* same sequence of backend calls, the order of the four axes included.
C17_PassesRepeat ==
    (render.passes >= 2 /\ render.first.status = "Ok" /\ render.last.status = "Ok") =>
        render.first.calls = render.last.calls

\* the place among its kind (series or fill) of the k-th entry registered
PlaceInKind(order, k) == Cardinality({j \in 1..k : order[j] = order[k]})

\* the positions in a pass of the drawing calls made for the k-th entry registered
CallsFor(issued, order, k) ==
    { i \in 1..Len(issued) :
        /\ issued[i].entry = PlaceInKind(order, k)
        /\ IF order[k] = "Series" THEN issued[i].what \in {"curve", "marker"}
                                  ELSE issued[i].what = "fill" }

\* C18: in a successful pass every entry registered on the subplot is drawn, and
\* the entries are drawn in the order of plot_order.
C18_EveryEntryDrawnInOrder ==
    (render.passes > 0 /\ render.last.status = "Ok") =>
        /\ \A k \in 1..Len(subplot.plot_order) :
              CallsFor(render.last.calls, subplot.plot_order, k) # {}
        /\ \A k \in 1..Len(subplot.plot_order), m \in 1..Len(subplot.plot_order) :
              k < m =>
                  \A i \in CallsFor(render.last.calls, subplot.plot_order, k),
                     j \in CallsFor(render.last.calls, subplot.plot_order, m) : i < j

\* C24: a pass that returns BadTickPlacement or BadTickLabels has issued no
\* drawing call: the ticks and labels of the four axes are validated before the
\* first call on the backend.
C24_FailedPassDrawsNothing ==
    (render.passes > 0 /\ render.last.status \in {"BadTickPlacement", "BadTickLabels"}) =>
        render.last.calls = <<>>

\* C27: on an axis whose limits are chosen automatically and on which a series or
\* a fill is registered, the limits a pass uses are the limits registration stored
StoredLimits(a) == <<subplot.axis[a].limits.lo, subplot.axis[a].limits.hi>>
C27_RenderLimitsAreStoredLimits ==
    render.passes > 0 =>
        \A a \in AxisType :
            (/\ subplot.axis[a].limit_policy.tag = "Auto"
             /\ AxisUsed(subplot, a)
             /\ render.last.axes[a].status = "Ok") =>
                render.last.axes[a].limits = StoredLimits(a)

\* a / b on f64: 0 / 0 and inf / inf are NaN, x / 0 is an infinity
FDiv(a, b) ==
    IF is_nan(a) \/ is_nan(b) THEN NAN
    ELSE IF ~IsFin(a) /\ ~IsFin(b) THEN NAN
    ELSE IF ~IsFin(a) THEN (IF (a = INFINITY) = (b.v >= 0) THEN INFINITY ELSE NEG_INFINITY)
    ELSE IF ~IsFin(b) THEN Fin(0)
    ELSE IF b.v = 0
         THEN (IF a.v = 0 THEN NAN ELSE IF a.v > 0 THEN INFINITY ELSE NEG_INFINITY)
    ELSE IF b.v > 0 THEN Fin(RoundDivSigned(a.v * Unit, b.v))
    ELSE Fin(RoundDivSigned((-a.v) * Unit, -b.v))

\* SeriesData::data(): the p-th (x, y) pair of a series, the edges of a step
\* series taken in windows of two and each of its y values twice
data_point(data, p) ==
    IF data.kind = "points" THEN <<data.xdata[p], data.ydata[p]>>
    ELSE <<data.xdata[(p \div 2) + 1], data.ydata[(p + 1) \div 2]>>

\* figure.rs lines 824-825 and 851-859: the fractional position of the p-th
\* point of an entry of plot_infos within the limits of its two axes
point_fraction(plot_info, axes_finalized, p) ==
    LET xlim == axes_finalized[plot_info.xaxis].limits
        ylim == axes_finalized[plot_info.yaxis].limits
        point == data_point(plot_info.data, p)
    IN [ x |-> FDiv(FSub(point[1], xlim[1]), FSub(xlim[2], xlim[1])),
         y |-> FDiv(FSub(point[2], ylim[1]), FSub(ylim[2], ylim[1])) ]

InUnitInterval(f) == IsFin(f) /\ 0 <= f.v /\ f.v <= Unit

\* C21: with automatic limits on both of its axes, every point of every series
\* drawn in a pass has a fractional position that is a number in [0, 1] on both
\* axes, a series whose values are all equal on an axis included
C21_FractionsInUnitInterval ==
    (render.passes > 0 /\ render.last.status = "Ok") =>
        \A i \in 1..Len(subplot.plot_infos) :
            (/\ subplot.axis[subplot.plot_infos[i].xaxis].limit_policy.tag = "Auto"
             /\ subplot.axis[subplot.plot_infos[i].yaxis].limit_policy.tag = "Auto") =>
                \A p \in 1..data_len(subplot.plot_infos[i].data) :
                    /\ InUnitInterval(point_fraction(subplot.plot_infos[i],
                                                     render.last.axes, p).x)
                    /\ InUnitInterval(point_fraction(subplot.plot_infos[i],
                                                     render.last.axes, p).y)

\* the label ticks_to_labels makes of one tick under the modifiers of an axis
LabelOfTick(tick, axis, precision, checks) ==
    ticks_to_labels(<<tick>>, TmOk(axis.label_offset, axis.label_multiplier, precision),
                    checks).labels[1]

\* C26: in whatever order the ticks of an axis are listed, the i-th label made
\* automatically, which is drawn at the i-th tick, is the label of that tick
C26_LabelBelongsToItsTick ==
    render.passes > 0 =>
        \A a \in AxisType :
            (/\ render.last.axes[a].status = "Ok"
             /\ render.axes[a].major_ticks.labels.tag # "Manual") =>
                \A i \in 1..Len(render.last.axes[a].major_tick_labels) :
                    render.last.axes[a].major_tick_labels[i]
                        = LabelOfTick(render.last.axes[a].major_tick_locs[i],
                                      render.last.axes[a],
                                      render.last.axes[a].major_tick_labels[i].precision,
                                      overflow_checks)

\* the decimal representation of an i32
Decimal(n) == IF n < 0 THEN <<"-">> \o superscript(-n) ELSE superscript(n)

\* C28: the exponent drawn after "x10" for an axis whose multiplier is not 0 is
\* the decimal representation of the multiplier, a negative one included
C28_ExponentIsTheMultiplier ==
    render.passes > 0 =>
        \A k \in 1..Len(render.last.calls) :
            (/\ render.last.calls[k].what = "modifier"
             /\ render.last.axes[render.last.calls[k].axis].label_multiplier # 0) =>
                /\ render.last.calls[k].text.x10
                /\ render.last.calls[k].text.exponent
                      = Decimal(render.last.axes[render.last.calls[k].axis].label_multiplier)

(***************************************************************************)
(* Backend specification: a Figure is constructed, takes subplots that are *)
(* built and filled, and is drawn to a backend with draw_to_backend.       *)
(***************************************************************************)
MaxDrawn == 2
MaxDraws == 2

\* the subplots added, each with its axes and title: one that draws, one that
\* ends with BadTickLabels and one that ends with BadTickPlacement
BackendSubplots ==
    { <<OnePlot, AllAxes(AutoAxis), "">>,
      <<OnePlot, OneAxis("X", MajorLabelled(3)), "">>,
      <<OnePlot, OneAxis("X", CountAxis(1)), "">> }

\* the places asked for: the whole figure, and the halves of a grid of two columns
BackendGrids == { <<1, 1, 1>>, <<1, 2, 1>>, <<1, 2, 2>> }

\* backend.size(): the size of the figure constructed, or another one
BackendSizes(desc) == { new(desc).size, [width |-> 800, height |-> 600] }

\* the results draw_subplot can give for the i-th subplot of a figure: one for
\* each order in which the map of its axes yields its keys
subplot_results(f, i, checks) ==
    Bind(plan_subplot(f.subplots[i][1], f.subplots[i][2], f.subplots[i][3],
                      SubplotFormat(8, "Inner", NoLength), f.scaling, <<6, 10>>,
                      f.subplot_areas[i], checks),
         LAMBDA planned :
            { draw_subplot(f.subplots[i][1], planned, order).status : order \in HashOrders })

\* Figure::draw_to_backend, lines 92-106, results[i] being what draw_subplot
\* returns for the i-th subplot: the size is set to the size of the backend, the
\* subplots are drawn in turn, the first error is returned at once by `?`, and
\* past the loop the size is set back
draw_to_backend(f, backend_size, results) ==
    LET resized == [f EXCEPT !.size = backend_size]
        failed == {i \in 1..Len(f.subplots) : i <= Len(f.subplot_areas) /\ results[i] # "Ok"}
    IN IF failed = {}
       THEN [result |-> "Ok", figure |-> [resized EXCEPT !.size = f.size]]
       ELSE [result |-> results[CHOOSE i \in failed : \A j \in failed : i <= j],
             figure |-> resized]

\* what is kept of the last call made on the figure, and the figure before it
FigCall(op, result, before, draws) ==
    [op |-> op, result |-> result, before |-> before, draws |-> draws]

BackendInit ==
    /\ mode = "backend"
    /\ figure = new(DefaultFigureDescriptor)
    /\ fig_ret = FigCall("new", "Ok", new(DefaultFigureDescriptor), 0)
    /\ overflow_checks \in BOOLEAN
    /\ phase = "idle"
    /\ subplot = DefaultSubplot
    /\ calls = 0
    /\ last_call = NoCall
    /\ sd = IdleSd
    /\ tm = IdleTm
    /\ lay = IdleLay
    /\ render = IdleRender

\* Figure::add_subplot with a subplot that is built and filled
AddBuiltSubplot ==
    /\ mode = "backend"
    /\ fig_ret.result # "panic"
    /\ Len(figure.subplots) < MaxDrawn
    /\ \E g \in BackendGrids, sub \in BackendSubplots :
          \E r \in { add_subplot(figure, g[1], g[2], g[3], sub, overflow_checks) } :
             /\ figure' = r.figure
             /\ fig_ret' = FigCall("add_subplot", r.result, figure, fig_ret.draws)
    /\ UNCHANGED <<mode, phase, subplot, calls, last_call, sd, tm, lay, render,
                   overflow_checks>>

\* Figure::draw_to_backend; a panic in draw_subplot ends the program
DrawToBackend ==
    /\ mode = "backend"
    /\ fig_ret.result # "panic"
    /\ fig_ret.draws < MaxDraws
    /\ \E backend_size \in BackendSizes(DefaultFigureDescriptor) :
          \E possible \in { [i \in 1..Len(figure.subplots) |->
                                subplot_results(figure, i, overflow_checks)] } :
             \E results \in [1..Len(figure.subplots) ->
                                {"Ok", "BadTickPlacement", "BadTickLabels", "panic"}] :
                /\ \A i \in 1..Len(figure.subplots) : results[i] \in possible[i]
                /\ \E r \in { draw_to_backend(figure, backend_size, results) } :
                      /\ figure' = r.figure
                      /\ fig_ret' = FigCall("draw_to_backend", r.result, figure,
                                            fig_ret.draws + 1)
    /\ UNCHANGED <<mode, phase, subplot, calls, last_call, sd, tm, lay, render,
                   overflow_checks>>

BackendNext == AddBuiltSubplot \/ DrawToBackend

BackendSpec == BackendInit /\ [][BackendNext]_vars

\* C23: draw_to_backend leaves the figure as it found it: when it has returned,
\* with Ok or with the error of a subplot, the size stored is the size before
\* the call, and the subplots and their areas are unchanged
C23_DrawLeavesFigureAsFound ==
    (fig_ret.op = "draw_to_backend" /\ fig_ret.result # "panic") =>
        /\ figure.size = fig_ret.before.size
        /\ figure.subplots = fig_ret.before.subplots
        /\ figure.subplot_areas = fig_ret.before.subplot_areas

====
